---- MODULE Spec2Model ----
(***************************************************************************)
(* Context and memory engine of the WhatsAppWizard agent.                  *)
(*                                                                         *)
(* Three groups of definitions:                                            *)
(*  - the per-request state machine of ConversationService.process_message *)
(*    over the SQL repositories (src/src/...), with the older              *)
(*    MemoryManager.process_message of main.py next to it;                 *)
(*  - SQLConversationRepository.check_repetition as a function of the      *)
(*    stored rows;                                                         *)
(*  - MemoryManager.get_conversation_context of main.py, the token-        *)
(*    budgeted context build.                                              *)
(*                                                                         *)
(* Texts are kept as their length in characters wherever only the length   *)
(* decides (token estimates); embeddings are small integer vectors and     *)
(* cosine similarity is compared with the threshold in exact arithmetic.   *)
(***************************************************************************)
EXTENDS Integers, Sequences, FiniteSets, TLC

VARIABLES
    users,       \* rows of the users table (user ids), in insertion order
    log,         \* rows of the conversations table, in insertion order
    userContext, \* rows of the user_context table, per user
    memories,    \* rows of the user_memories table, in insertion order
    now,         \* wall clock, in seconds
    req,         \* the in-flight requests of ConversationService / MemoryManager
    faults,      \* provider and storage errors raised so far
    repIn,       \* inputs of one check_repetition call
    repOut,      \* its result
    cfg,         \* MemoryManager settings and stored state for one context build
    built,       \* result of one get_conversation_context call
    sumCalls,    \* the summarization calls made, with what each was given
    memIn,       \* inputs of one get_relevant_memories call
    memOut,      \* its result
    roll,        \* one user_context row and the sessions updating it
    sched,       \* the event loop and the requests it runs
    userCalls,   \* the get_or_create_user calls made, with how each ended
    hookCalls,   \* the webhook requests handled, with the outcome of each
    est,         \* texts given to _count_tokens and what it returned
    creation     \* the user_context row of a new user and the sessions creating it

vars == <<users, log, userContext, memories, now, req, faults, repIn, repOut, cfg, built,
         sumCalls, memIn, memOut, roll, sched, userCalls, hookCalls, est, creation>>

procVars == <<users, log, userContext, memories, now, req, faults>>
repVars  == <<repIn, repOut>>
ctxVars  == <<cfg, built, sumCalls>>
memVars  == <<memIn, memOut>>
rollVars == <<roll>>
liveVars == <<sched>>
userVars == <<userCalls>>
hookVars == <<hookCalls>>
estVars == <<est>>
creationVars == <<creation>>

None == "none"

----------------------------------------------------------------------------
(* Bounds of the model.                                                    *)

MaxFaults == 1
MaxTime == 31
MaxMemories == 1
MaxRows == 3
MaxTurns == 6
MaxMemRows == 3

----------------------------------------------------------------------------
(* Small helpers on sequences.                                             *)

Min(a, b) == IF a <= b THEN a ELSE b

Reverse(s) == [i \in 1..Len(s) |-> s[Len(s) + 1 - i]]

Take(s, n) == SubSeq(s, 1, Min(n, Len(s)))

LastN(s, n) == SubSeq(s, Len(s) - Min(n, Len(s)) + 1, Len(s))

RECURSIVE SumSeq(_)
SumSeq(s) == IF s = <<>> THEN 0 ELSE Head(s) + SumSeq(Tail(s))

----------------------------------------------------------------------------
(* Embeddings and cosine similarity.                                       *)

\* sklearn's cosine_similarity on two row vectors of equal length:
\* dot(a, b) / (|a| |b|), and 0 when either norm is 0.
Dot(a, b) == SumSeq([i \in 1..Len(a) |-> a[i] * b[i]])

\* repetition threshold 0.8, kept as the fraction 4/5
ThresholdNum == 4
ThresholdDen == 5

\* similarity > num/den, decided without square roots:
\* dot > 0 and den^2 * dot^2 > num^2 * |a|^2 * |b|^2
SimilarityExceeds(a, b, num, den) ==
    /\ Dot(a, b) > 0
    /\ den * den * Dot(a, b) * Dot(a, b) > num * num * Dot(a, a) * Dot(b, b)

----------------------------------------------------------------------------
(* The stores.                                                             *)

Users == {"u1", "u2"}

\* An absent embedding (None, or an empty list: both are falsy in Python).
NoEmbedding == <<>>

\* EmbeddingProvider.encode for the messages of the model: vectors of one
\* fixed dimension.  A message repeated has similarity 1 to itself, and
\* "hello" and "bye" have similarity 0.6 to each other.
Messages == {"hello", "bye"}

encode(m) == IF m = "hello" THEN <<4, 3>> ELSE <<3, 4>>

\* Content returned by the LLM for a user message.
LLMContent(m) == IF m = "hello" THEN "reply to hello" ELSE "reply to bye"

SystemPrompt == "You are a helpful AI assistant."

FallbackResponse ==
    "I apologize, but I'm having trouble processing your message right now. Please try again in a moment."

\* Conversation.timestamp >= current_timestamp - window, for one user,
\* ORDER BY timestamp DESC LIMIT 10.  The log is in insertion order, which
\* is timestamp order.
ScanLimit == 10
TimeWindowSeconds == 30
RecentLimit == 10

ConversationsOf(lg, u) == SelectSeq(lg, LAMBDA c : c.user = u)

\* (variant: the query has no limit)
RepetitionCandidatesUnlimited(lg, u, t, window) ==
    Reverse(SelectSeq(lg, LAMBDA c : c.user = u /\ c.ts >= t - window))

RepetitionCandidates(lg, u, t, window) ==
    Take(Reverse(SelectSeq(lg, LAMBDA c : c.user = u /\ c.ts >= t - window)),
         ScanLimit)

NoMatch == [found |-> FALSE, conv |-> <<>>]

\* The comparison loop of check_repetition.  cosine_similarity raises
\* ValueError on rows of different length; the enclosing try/except turns
\* that into (False, None) for the whole call.
RECURSIVE CompareEmbeddings(_, _, _, _)
CompareEmbeddings(cands, emb, num, den) ==
    IF cands = <<>> THEN NoMatch
    ELSE LET conv == Head(cands)
         IN  IF conv.embedding = NoEmbedding
                THEN CompareEmbeddings(Tail(cands), emb, num, den)
             ELSE IF Len(conv.embedding) # Len(emb)
                THEN NoMatch
             ELSE IF SimilarityExceeds(emb, conv.embedding, num, den)
                THEN [found |-> TRUE, conv |-> <<conv>>]
             ELSE CompareEmbeddings(Tail(cands), emb, num, den)

\* SQLConversationRepository.check_repetition
check_repetition(lg, u, emb, t, num, den, window) ==
    CompareEmbeddings(RepetitionCandidates(lg, u, t, window), emb, num, den)

\* ConversationDB.check_repetition (database.py): the 10 newest rows of the
\* user, whatever their age.
LegacyCandidates(lg, u) == Take(Reverse(ConversationsOf(lg, u)), ScanLimit)

legacy_check_repetition(lg, u, emb, num, den) ==
    CompareEmbeddings(LegacyCandidates(lg, u), emb, num, den)

\* (variant: the newest rows of the table, whoever they belong to)
get_recent_conversations_of_anyone(lg, u, limit) == Take(Reverse(lg), limit)

\* SQLConversationRepository.get_recent_conversations: newest first.
get_recent_conversations(lg, u, limit) == Take(Reverse(ConversationsOf(lg, u)), limit)

\* UserContext.add_message: append, then keep the last context_window.
ContextWindow == 10

\* msgs[-n:] for n >= 0: the list from index -n on, and -0 is index 0.
SliceFromEnd(msgs, n) == IF n = 0 THEN msgs ELSE LastN(msgs, n)

add_message(msgs, entry, window) ==
    LET appended == Append(msgs, entry)
    IN  IF Len(appended) > window
        THEN SliceFromEnd(appended, window)
        ELSE appended

----------------------------------------------------------------------------
(* ConversationService.process_message, one action per awaited step.       *)

\* Two requests, in flight together or one after the other.
Requests == {1, 2}

NoResult == [response |-> None, keys |-> {}, is_repetition |-> FALSE, similar |-> <<>>]

\* {"response": <fallback>, "error": str(e)}
FallbackResult ==
    [response |-> FallbackResponse, keys |-> {"response", "error"},
     is_repetition |-> FALSE, similar |-> <<>>]

\* {"response": similar_conv['response'], "is_repetition": True,
\*  "similar_conversation": similar_conv}
RepetitionResult(conv) ==
    [response |-> conv.response,
     keys |-> {"response", "is_repetition", "similar_conversation"},
     is_repetition |-> TRUE, similar |-> <<conv>>]

\* (variant: only the beginning of the content is returned)
GeneratedResultTruncated(content) ==
    [response |-> "reply", keys |-> {"response", "is_repetition", "usage"},
     is_repetition |-> FALSE, similar |-> <<>>]

\* {"response": llm_response["content"], "is_repetition": False, "usage": ...}
GeneratedResult(content) ==
    [response |-> content, keys |-> {"response", "is_repetition", "usage"},
     is_repetition |-> FALSE, similar |-> <<>>]

IdleRequest ==
    [pc |-> "idle", impl |-> None, user |-> None, message |-> None,
     embedding |-> NoEmbedding, context |-> <<>>, sent |-> <<>>,
     content |-> None,
     result |-> NoResult, trace |-> <<>>, failed |-> {}, llmCalls |-> 0,
     repQueries |-> 0]

\* The outer `except Exception` of process_message: the exception raised by
\* `step` ends the request with the fallback dictionary.
RaiseIn(rq, step) ==
    [rq EXCEPT !.pc = "done", !.result = FallbackResult,
               !.failed = @ \cup {step}, !.trace = Append(@, step)]

\* A step that ran to its end (its own error, if any, swallowed).
Ran(rq, step, next) == [rq EXCEPT !.pc = next, !.trace = Append(@, step)]

Swallowed(rq, step, next) ==
    [Ran(rq, step, next) EXCEPT !.failed = @ \cup {step}]

\* A provider or storage call raises: any call may, MaxFaults times in a run.
Fault(n) == faults + n <= MaxFaults /\ faults' = faults + n

NoFault == faults' = faults

\* webhook -> ProcessMessageUseCase.execute -> process_message(user, message)
Receive(r) ==
    /\ req[r].pc = "idle"
    /\ \A q \in Requests : q < r => req[q].pc # "idle"
    /\ \E u \in Users, m \in Messages, i \in {"service", "legacy"} :
          req' = [req EXCEPT ![r] = [@ EXCEPT !.pc = "received", !.impl = i,
                                               !.user = u, !.message = m]]
    /\ NoFault
    /\ UNCHANGED <<users, log, userContext, memories, now>>
    /\ UNCHANGED <<repVars, ctxVars, memVars, rollVars, liveVars, userVars, hookVars, estVars, creationVars>>

\* SQLUserRepository.get_or_create_user: INSERT .. ON CONFLICT DO NOTHING;
\* an error is logged and raised again.
\* the rows of the users table with this primary key
HasUser(rows, id) == \E i \in 1..Len(rows) : rows[i] = id

\* (variant: INSERT without ON CONFLICT; a duplicate key raises IntegrityError)
get_or_create_user_plain_insert(rows, id) ==
    IF HasUser(rows, id)
    THEN [rows |-> rows, raised |-> TRUE]
    ELSE [rows |-> Append(rows, id), raised |-> FALSE]

\* SQLUserRepository.get_or_create_user:
\* INSERT INTO users (id) VALUES (:id) ON CONFLICT (id) DO NOTHING; commit
get_or_create_user(rows, id) ==
    [rows |-> IF HasUser(rows, id) THEN rows ELSE Append(rows, id),
     raised |-> FALSE]

\* ConversationDB._get_or_create_user: select by id; add and commit if absent
legacy_get_or_create_user(rows, id) ==
    LET user == HasUser(rows, id)
    IN  IF ~user
        THEN [rows |-> Append(rows, id), raised |-> FALSE]
        ELSE [rows |-> rows, raised |-> FALSE]

GetOrCreateUserFailed(rq) == RaiseIn(rq, "get_or_create_user")

GetOrCreateUser(r) ==
    /\ req[r].pc = "received" /\ req[r].impl = "service"
    /\ \/ /\ users' = get_or_create_user(users, req[r].user).rows
          /\ req' = [req EXCEPT ![r] = Ran(@, "get_or_create_user", "embed")]
          /\ NoFault
       \/ /\ users' = users
          /\ req' = [req EXCEPT ![r] = GetOrCreateUserFailed(@)]
          /\ Fault(1)
    /\ UNCHANGED <<log, userContext, memories, now>>
    /\ UNCHANGED <<repVars, ctxVars, memVars, rollVars, liveVars, userVars, hookVars, estVars, creationVars>>

\* (variant: the embedding error is not caught and reaches the outer handler)
EmbeddingFailedRaises(rq) == RaiseIn(rq, "embed")

\* _generate_embedding: encode([text])[0], or None when encode raises.
EmbeddingFailed(rq) ==
    [Swallowed(rq, "embed", "check_repetition") EXCEPT !.embedding = NoEmbedding]

GenerateEmbedding(r) ==
    /\ req[r].pc = "embed"
    /\ \/ /\ req' = [req EXCEPT ![r] =
                       [Ran(@, "embed", "check_repetition")
                           EXCEPT !.embedding = encode(req[r].message)]]
          /\ NoFault
       \/ /\ req' = [req EXCEPT ![r] = EmbeddingFailed(@)]
          /\ Fault(1)
    /\ UNCHANGED <<users, log, userContext, memories, now>>
    /\ UNCHANGED <<repVars, ctxVars, memVars, rollVars, liveVars, userVars, hookVars, estVars, creationVars>>

\* (variant: the match is recorded but processing goes on)
RepetitionFoundContinues(rq, conv) ==
    [Ran(rq, "check_repetition", "build_context") EXCEPT !.result = RepetitionResult(conv)]

\* `if is_repetition and similar_conv: return {...}` of process_message
RepetitionFound(rq, conv) ==
    [Ran(rq, "check_repetition", "done") EXCEPT !.result = RepetitionResult(conv)]

\* _check_repetition: no query without an embedding; otherwise the
\* repository is asked with datetime.now(), threshold 0.8, window 30.
CheckRepetitionStep(rq, lg, t) ==
    IF rq.embedding = NoEmbedding
       THEN Ran(rq, "check_repetition", "build_context")
    ELSE LET res == check_repetition(lg, rq.user, rq.embedding, t,
                                     ThresholdNum, ThresholdDen, TimeWindowSeconds)
             asked == [rq EXCEPT !.repQueries = @ + 1]
         IN  IF res.found /\ res.conv # <<>>
                THEN RepetitionFound(asked, res.conv[1])
                ELSE Ran(asked, "check_repetition", "build_context")

CheckRepetition(r) ==
    /\ req[r].pc = "check_repetition"
    /\ \/ /\ req' = [req EXCEPT ![r] = CheckRepetitionStep(@, log, now)]
          /\ NoFault
       \/ /\ req[r].embedding # NoEmbedding
          /\ req' = [req EXCEPT ![r] =
                       [Swallowed(@, "check_repetition", "build_context")
                           EXCEPT !.repQueries = @ + 1]]
          /\ Fault(1)
    /\ UNCHANGED <<users, log, userContext, memories, now>>
    /\ UNCHANGED <<repVars, ctxVars, memVars, rollVars, liveVars, userVars, hookVars, estVars, creationVars>>

\* A row of user_context: as created by _get_or_create_user_context, no
\* preferred language and an empty rolling context.
AbsentContext == [exists |-> FALSE, preferred_language |-> None, context_messages |-> <<>>]

NewContext == [exists |-> TRUE, preferred_language |-> None, context_messages |-> <<>>]

get_or_create_user_context(uc, u) == IF uc[u].exists THEN uc ELSE [uc EXCEPT ![u] = NewContext]

\* for conv in reversed(recent): user message, then assistant message
TurnMessages(chron) ==
    [i \in 1..(2 * Len(chron)) |->
        IF i % 2 = 1
           THEN [role |-> "user", content |-> chron[(i + 1) \div 2].message]
           ELSE [role |-> "assistant", content |-> chron[i \div 2].response]]

\* (variant: the system prompt is left out)
build_conversation_context_without_prompt(lang, recent) ==
    (IF lang # None THEN <<[role |-> "system", content |-> lang]>> ELSE <<>>)
    \o TurnMessages(Reverse(recent))

\* _build_conversation_context, given what the two repository calls returned
build_conversation_context(lang, recent) ==
    <<[role |-> "system", content |-> SystemPrompt]>>
    \o (IF lang # None THEN <<[role |-> "system", content |-> lang]>> ELSE <<>>)
    \o TurnMessages(Reverse(recent))

\* get_user_preferences returns {} on an error, get_recent_conversations [].
BuildContext(r) ==
    /\ req[r].pc = "build_context"
    /\ \E prefsOk \in BOOLEAN, recentOk \in BOOLEAN :
          LET u      == req[r].user
              uc     == IF prefsOk THEN get_or_create_user_context(userContext, u)
                                   ELSE userContext
              lang   == IF prefsOk THEN uc[u].preferred_language ELSE None
              recent == IF recentOk THEN get_recent_conversations(log, u, RecentLimit)
                                    ELSE <<>>
              bad    == (IF prefsOk THEN {} ELSE {"get_user_preferences"})
                        \cup (IF recentOk THEN {} ELSE {"get_recent_conversations"})
          IN  /\ userContext' = uc
              /\ req' = [req EXCEPT ![r] =
                           [Ran(@, "assemble_context", "generate")
                               EXCEPT !.context = build_conversation_context(lang, recent),
                                      !.failed = @ \cup bad]]
              /\ Fault(Cardinality(bad))
    /\ UNCHANGED <<users, log, memories, now>>
    /\ UNCHANGED <<repVars, ctxVars, memVars, rollVars, liveVars, userVars, hookVars, estVars, creationVars>>

\* (variant: a failed generation is tried again)
GenerateFailedRetries(rq) ==
    [rq EXCEPT !.llmCalls = @ + 1, !.failed = @ \cup {"generate"}]

\* (variant: a failed generation is answered with the apology, which is then
\* stored like a generated response)
GenerateFailedStoresApology(rq) ==
    [Ran(rq, "generate", "store") EXCEPT !.content = FallbackResponse,
                                         !.llmCalls = @ + 1,
                                         !.failed = @ \cup {"generate"}]

\* _generate_llm_response: the provider raises on any failure, and
\* process_message does not catch it before its outer handler.
GenerateFailed(rq) == [RaiseIn(rq, "generate") EXCEPT !.llmCalls = @ + 1]

Generate(r) ==
    /\ req[r].pc = "generate"
    /\ LET sent == Append(req[r].context, [role |-> "user", content |-> req[r].message])
       IN  \/ /\ req' = [req EXCEPT ![r] =
                           [Ran(@, "generate", "store")
                               EXCEPT !.content = LLMContent(req[r].message),
                                      !.sent = sent, !.llmCalls = @ + 1]]
              /\ NoFault
           \/ /\ req' = [req EXCEPT ![r] = [GenerateFailed(@) EXCEPT !.sent = sent]]
              /\ Fault(1)
    /\ UNCHANGED <<users, log, userContext, memories, now>>
    /\ UNCHANGED <<repVars, ctxVars, memVars, rollVars, liveVars, userVars, hookVars, estVars, creationVars>>

\* the row add_conversation inserts; `by` records the request that wrote it
Turn(rq, t, r) ==
    [user |-> rq.user, message |-> rq.message, response |-> rq.content,
     embedding |-> rq.embedding, ts |-> t, by |-> r]

\* (variant: the new row takes the place of the user's latest row)
add_conversation_upsert(lg, row) ==
    IF \E i \in 1..Len(lg) : lg[i].user = row.user
       THEN LET last == CHOOSE i \in 1..Len(lg) :
                            /\ lg[i].user = row.user
                            /\ \A j \in (i + 1)..Len(lg) : lg[j].user # row.user
            IN  [lg EXCEPT ![last] = row]
       ELSE Append(lg, row)

\* SQLConversationRepository.add_conversation: session.add(Conversation(..));
\* commit.  A new row, with its own id, for every call.
add_conversation(lg, row) == Append(lg, row)

\* _store_conversation: add_conversation logs and re-raises, and
\* process_message does not catch it before its outer handler.
StoreFailed(rq) == RaiseIn(rq, "persist")

StoreConversation(r) ==
    /\ req[r].pc = "store"
    /\ \/ /\ log' = add_conversation(log, Turn(req[r], now, r))
          /\ req' = [req EXCEPT ![r] = Ran(@, "persist", "update_user")]
          /\ NoFault
       \/ /\ log' = log
          /\ req' = [req EXCEPT ![r] = StoreFailed(@)]
          /\ Fault(1)
    /\ UNCHANGED <<users, userContext, memories, now>>
    /\ UNCHANGED <<repVars, ctxVars, memVars, rollVars, liveVars, userVars, hookVars, estVars, creationVars>>

\* SQLContextManager.update_user_context
update_user_context(uc, u, role, content, r) ==
    LET got == get_or_create_user_context(uc, u)
    IN  [got EXCEPT ![u].context_messages =
            add_message(@, [role |-> role, content |-> content, by |-> r], ContextWindow)]

\* (variant: the assistant entry is appended first)
UpdateContextAssistantFirst(r) ==
    /\ req[r].pc = "update_user"
    /\ userContext' = update_user_context(userContext, req[r].user, "assistant",
                                          req[r].content, r)
    /\ req' = [req EXCEPT ![r] = Ran(@, "append_assistant", "update_assistant")]
    /\ NoFault
    /\ UNCHANGED <<users, log, memories, now>>
    /\ UNCHANGED <<repVars, ctxVars, memVars, rollVars, liveVars, userVars, hookVars, estVars, creationVars>>

\* _update_context, first call; an error is logged inside the manager.
UpdateContextUser(r) ==
    /\ req[r].pc = "update_user"
    /\ \/ /\ userContext' = update_user_context(userContext, req[r].user, "user",
                                                 req[r].message, r)
          /\ req' = [req EXCEPT ![r] = Ran(@, "append_user", "update_assistant")]
          /\ NoFault
       \/ /\ userContext' = userContext
          /\ req' = [req EXCEPT ![r] = Swallowed(@, "append_user", "update_assistant")]
          /\ Fault(1)
    /\ UNCHANGED <<users, log, memories, now>>
    /\ UNCHANGED <<repVars, ctxVars, memVars, rollVars, liveVars, userVars, hookVars, estVars, creationVars>>

\* _update_context, second call, and the return of the generated response.
UpdateContextAssistant(r) ==
    /\ req[r].pc = "update_assistant"
    /\ \/ /\ userContext' = update_user_context(userContext, req[r].user, "assistant",
                                                 req[r].content, r)
          /\ req' = [req EXCEPT ![r] =
                       [Ran(@, "append_assistant", "done")
                           EXCEPT !.result = GeneratedResult(req[r].content)]]
          /\ NoFault
       \/ /\ userContext' = userContext
          /\ req' = [req EXCEPT ![r] =
                       [Swallowed(@, "append_assistant", "done")
                           EXCEPT !.result = GeneratedResult(req[r].content)]]
          /\ Fault(1)
    /\ UNCHANGED <<users, log, memories, now>>
    /\ UNCHANGED <<repVars, ctxVars, memVars, rollVars, liveVars, userVars, hookVars, estVars, creationVars>>

\* MemoryManager.process_message (main.py): its first statement calls
\* db.get_or_create_user, which ConversationDB does not define; the
\* AttributeError reaches the outer handler and the fallback is returned.
MemoryManager_process_message(r) ==
    /\ req[r].pc = "received" /\ req[r].impl = "legacy"
    /\ req' = [req EXCEPT ![r] = RaiseIn(@, "get_or_create_user")]
    /\ NoFault
    /\ UNCHANGED <<users, log, userContext, memories, now>>
    /\ UNCHANGED <<repVars, ctxVars, memVars, rollVars, liveVars, userVars, hookVars, estVars, creationVars>>

\* SQLMemoryRepository.add_memory, called from outside message processing
\* for a user that exists
add_memory(u) ==
    /\ Len(memories) < MaxMemories
    /\ HasUser(users, u)
    /\ memories' = Append(memories,
                          [user |-> u, memory_type |-> "fact", importance |-> 10,
                           embedding |-> NoEmbedding, is_active |-> TRUE])
    /\ NoFault
    /\ UNCHANGED <<users, log, userContext, now, req>>
    /\ UNCHANGED <<repVars, ctxVars, memVars, rollVars, liveVars, userVars, hookVars, estVars, creationVars>>

\* time passes
TickSteps == {31}

Tick ==
    /\ \E d \in TickSteps : now + d <= MaxTime /\ now' = now + d
    /\ NoFault
    /\ UNCHANGED <<users, log, userContext, memories, req>>
    /\ UNCHANGED <<repVars, ctxVars, memVars, rollVars, liveVars, userVars, hookVars, estVars, creationVars>>

InitProc ==
    /\ users = <<>>
    /\ log = <<>>
    /\ userContext = [u \in Users |-> AbsentContext]
    /\ memories = <<>>
    /\ now = 0
    /\ req = [r \in Requests |-> IdleRequest]
    /\ faults = 0

IdleRep == [rows |-> <<>>, user |-> None, embedding |-> NoEmbedding, now |-> 0]
NotCalled == [called |-> "no", res |-> NoMatch]
IdleCtx == [called |-> FALSE]
IdleMem == [rows |-> <<>>, user |-> None, embedding |-> NoEmbedding, limit |-> 0]
MemNotCalled == [called |-> "no", res |-> <<>>]
IdleRoll ==
    [window |-> 0, stored |-> <<>>, appended |-> <<>>, overlapped |-> FALSE,
     sessions |-> <<>>]
\* no provider call is going to hang
NoHang == [request |-> 0, call |-> "none"]

IdleSched == [holder |-> 0, pc |-> <<>>, hang |-> NoHang]

\* the parts of the state a specification does not use
CtxIdle == cfg = IdleCtx /\ built = <<>> /\ sumCalls = <<>>
RepIdle == repIn = IdleRep /\ repOut = NotCalled
MemIdle == memIn = IdleMem /\ memOut = MemNotCalled
RollIdle == roll = IdleRoll
SchedIdle == sched = IdleSched
UserIdle == userCalls = <<>>
HookIdle == hookCalls = <<>>
EstIdle == est = [texts |-> <<>>, counts |-> <<>>]
CreationIdle == creation = [rows |-> 0, sessions |-> <<>>]

Init ==
    /\ InitProc
    /\ repIn = IdleRep /\ repOut = NotCalled
    /\ cfg = IdleCtx /\ built = <<>> /\ sumCalls = <<>>
    /\ MemIdle /\ RollIdle /\ SchedIdle /\ UserIdle /\ HookIdle /\ EstIdle /\ CreationIdle

Next ==
    \/ \E r \in Requests :
          \/ Receive(r)
          \/ GetOrCreateUser(r)
          \/ MemoryManager_process_message(r)
          \/ GenerateEmbedding(r)
          \/ CheckRepetition(r)
          \/ BuildContext(r)
          \/ Generate(r)
          \/ StoreConversation(r)
          \/ UpdateContextUser(r)
          \/ UpdateContextAssistant(r)
    \/ \E u \in Users : add_memory(u)
    \/ Tick

Spec == Init /\ [][Next]_vars

\* process_message under the assumption that every provider and storage
\* call returns, with a result or with an error: the event loop resumes each
\* request after each of its awaited calls.
ProcessStep(r) ==
    \/ GetOrCreateUser(r)
    \/ MemoryManager_process_message(r)
    \/ GenerateEmbedding(r)
    \/ CheckRepetition(r)
    \/ BuildContext(r)
    \/ Generate(r)
    \/ StoreConversation(r)
    \/ UpdateContextUser(r)
    \/ UpdateContextAssistant(r)

NextFair == \E r \in Requests : Receive(r) \/ ProcessStep(r)

FairProcess == \A r \in Requests : WF_vars(ProcessStep(r))

SpecFair == Init /\ [][NextFair]_vars /\ FairProcess

----------------------------------------------------------------------------
(* check_repetition as a function of the stored rows.                      *)
(* Timestamps are seconds relative to the current time of the call, 0.     *)

\* ages of stored turns, in seconds before the call
Ages == {1, 29, 30, 31}

\* The new message embeds to <<1, 0>>; stored embeddings of the provider's
\* dimension with similarity 0.894, 0.949, 0.707 and exactly 0.8 to it.
QueryEmbedding == <<1, 0>>

ProviderEmbeddings == {<<2, 1>>, <<3, 1>>, <<1, 1>>, <<4, 3>>}

\* a stored embedding of another dimension (written under another model)
ForeignEmbeddings == {<<1, 0, 0>>}

Row(u, e, age) ==
    [user |-> u, message |-> "earlier", response |-> "reply to earlier",
     embedding |-> e, ts |-> 0 - age, by |-> 0]

\* rows of the querying user with any of the embeddings E or none, and rows
\* of another user that would match if they were looked at
RowChoices(E) ==
    {Row("u1", e, a) : e \in E \cup {NoEmbedding}, a \in Ages}
    \cup {Row("u2", QueryEmbedding, a) : a \in Ages}

\* conversation logs: insertion order is timestamp order
Logs(E) ==
    {s \in UNION {[1..n -> RowChoices(E)] : n \in 0..MaxRows} :
        \A i \in 1..Len(s), j \in 1..Len(s) : i < j => s[i].ts < s[j].ts}

\* logs with more rows inside the time window than the query's limit: one
\* row a second, the newest ScanLimit rows alike (not similar enough, without
\* an embedding, or similar) and the older ones similar to the new message
MaxLogRows == 12

LongLogs ==
    {[i \in 1..n |-> Row("u1", IF i <= n - ScanLimit THEN <<2, 1>> ELSE e, n + 1 - i)] :
        n \in (ScanLimit + 1)..MaxLogRows, e \in {<<1, 1>>, NoEmbedding, <<2, 1>>}}

RepInputs(E) ==
    {[rows |-> s, user |-> "u1", embedding |-> QueryEmbedding, now |-> 0] :
        s \in Logs(E) \cup LongLogs}

\* SQLConversationRepository.check_repetition(user, embedding, now, 0.8, 30)
SQLCheckRepetition ==
    /\ repOut.called = "no"
    /\ repOut' = [called |-> "sql",
                  res |-> check_repetition(repIn.rows, repIn.user, repIn.embedding,
                                           repIn.now, ThresholdNum, ThresholdDen,
                                           TimeWindowSeconds)]
    /\ UNCHANGED <<repIn, procVars, ctxVars, memVars, rollVars, liveVars, userVars, hookVars, estVars, creationVars>>

\* ConversationDB.check_repetition(user, embedding, 0.8)
LegacyCheckRepetition ==
    /\ repOut.called = "no"
    /\ repOut' = [called |-> "legacy",
                  res |-> legacy_check_repetition(repIn.rows, repIn.user,
                                                  repIn.embedding, ThresholdNum,
                                                  ThresholdDen)]
    /\ UNCHANGED <<repIn, procVars, ctxVars, memVars, rollVars, liveVars, userVars, hookVars, estVars, creationVars>>

InitRep ==
    /\ InitProc
    /\ repIn \in RepInputs(ProviderEmbeddings) /\ repOut = NotCalled
    /\ CtxIdle /\ MemIdle /\ RollIdle /\ SchedIdle /\ UserIdle /\ HookIdle /\ EstIdle /\ CreationIdle

InitRepDim ==
    /\ InitProc
    /\ repIn \in RepInputs(ProviderEmbeddings \cup ForeignEmbeddings)
    /\ repOut = NotCalled
    /\ CtxIdle /\ MemIdle /\ RollIdle /\ SchedIdle /\ UserIdle /\ HookIdle /\ EstIdle /\ CreationIdle

NextRep == SQLCheckRepetition \/ LegacyCheckRepetition

SpecRep == InitRep /\ [][NextRep]_vars

SpecRepDim == InitRepDim /\ [][NextRep]_vars

----------------------------------------------------------------------------
(* MemoryManager.get_conversation_context (main.py).  A text is modelled   *)
(* by its length in characters; a message is a role, what it carries, the  *)
(* length of its content and, for a turn's messages, the turn's position   *)
(* in the newest-first list of recent conversations.                       *)

\* MemoryManager.__init__
max_context_length == 10
context_summary_threshold == 5

\* get_relevant_memories(user_id, query_embedding, limit=5)
MemoryLimit == 5

\* (variant: a started group of four characters counts as a token)
count_tokens_rounding_up(len) == (len + 3) \div 4

\* _count_tokens: len(text) // 4
count_tokens(len) == len \div 4

\* len(system_prompt_template)
SystemPromptLength == 2848

\* len("User's preferred language: "), len("Frequently discussed topics:"),
\* len("\nRelevant context from previous conversations:\n"),
\* len("Summary of previous conversations: ")
LanguagePrefixLength == 27
TopicsHeaderLength == 28
MemoriesHeaderLength == 47
SummaryPrefixLength == 35

ContextMessage(role, kind, len, turn) ==
    [role |-> role, kind |-> kind, length |-> len, turn |-> turn]

\* "\n".join(["Frequently discussed topics:"] + ["- " + t for t in topics[:3]])
topics_text(topics) ==
    LET shown == Take(topics, 3)
    IN  TopicsHeaderLength + SumSeq([i \in 1..Len(shown) |-> 1 + 2 + shown[i]])

\* header + "\n".join("- " + m.content), one newline between two lines
memories_text(mems) ==
    MemoriesHeaderLength + SumSeq([i \in 1..Len(mems) |-> 2 + mems[i]])
        + (IF Len(mems) > 0 THEN Len(mems) - 1 ELSE 0)

\* ConversationDB.get_relevant_memories(user_id, []): the query names
\* UserMemory.is_active, which the model class of database_config.py does
\* not define; the AttributeError is caught and [] is returned.
legacy_get_relevant_memories(mems, u) == <<>>

\* (variant: a message that does not fit is cut to what is left of the budget)
AddOrTruncate(st, kind, len, budget) ==
    IF st.tokens + count_tokens(len) <= budget
       THEN [st EXCEPT !.tokens = @ + count_tokens(len),
                       !.context_messages = Append(@, ContextMessage("system", kind, len, 0))]
    ELSE [st EXCEPT !.tokens = budget,
                    !.context_messages =
                        Append(@, ContextMessage("system", kind, 4 * (budget - st.tokens), 0))]

\* a system message is added when it fits what is left of the budget
AddIfFits(st, kind, len, budget) ==
    IF st.tokens + count_tokens(len) <= budget
       THEN [st EXCEPT !.tokens = @ + count_tokens(len),
                       !.context_messages = Append(@, ContextMessage("system", kind, len, 0))]
    ELSE st

\* (variant: the two messages of a turn are admitted one by one)
RECURSIVE WalkConversationsSplit(_, _, _, _)
WalkConversationsSplit(convs, i, st, budget) ==
    IF i = 0 THEN st
    ELSE LET conv == convs[i]
             s1 == IF st.tokens + count_tokens(conv.message) <= budget
                      THEN [st EXCEPT !.tokens = @ + count_tokens(conv.message),
                                      !.for_context =
                                          <<ContextMessage("user", "user", conv.message, i)>> \o @]
                   ELSE st
             s2 == IF s1.tokens + count_tokens(conv.response) <= budget
                      THEN [s1 EXCEPT !.tokens = @ + count_tokens(conv.response),
                                      !.for_context =
                                          <<ContextMessage("assistant", "assistant",
                                                           conv.response, i)>> \o @]
                   ELSE [s1 EXCEPT !.to_summarize = <<i>> \o @]
         IN  WalkConversationsSplit(convs, i - 1, s2, budget)

\* `for conv in reversed(conversations)`: oldest first; a turn that fits is
\* inserted at the front of conversations_for_context, one that does not at
\* the front of conversations_to_summarize.
RECURSIVE WalkConversations(_, _, _, _)
WalkConversations(convs, i, st, budget) ==
    IF i = 0 THEN st
    ELSE LET conv  == convs[i]
             total == count_tokens(conv.message) + count_tokens(conv.response)
         IN  IF st.tokens + total <= budget
                THEN WalkConversations(convs, i - 1,
                        [st EXCEPT !.tokens = @ + total,
                                   !.for_context =
                                       <<ContextMessage("user", "user", conv.message, i),
                                         ContextMessage("assistant", "assistant", conv.response, i)>>
                                       \o @],
                        budget)
             ELSE WalkConversations(convs, i - 1,
                        [st EXCEPT !.to_summarize = <<i>> \o @], budget)

\* _summarize_and_store: (content, usage.total_tokens) of the provider's
\* answer, or ("", 0) when the request, the answer's shape, the embedding of
\* the summary or add_memory fails.
SummaryFailed == [ok |-> FALSE, stage |-> "llm", content |-> 0, total_tokens |-> 0]

\* what _summarize_and_store returns: the answer's content and
\* usage.total_tokens when every step succeeded, ("", 0) otherwise
summarize_and_store_result(outcome) ==
    IF outcome.ok THEN [content |-> outcome.content, total_tokens |-> outcome.total_tokens]
    ELSE [content |-> 0, total_tokens |-> 0]

\* the memory written for a summary; main.py passes
\* model.encode([summary]).tolist(), a list holding one vector
SummaryMemory(u, embedding) ==
    [user |-> u, memory_type |-> "summarization", importance |-> 7,
     embedding |-> embedding, is_active |-> TRUE]

\* (variant: a memory is written whatever became of the summarization)
summarize_and_store_always(mems, u, outcome) ==
    Append(mems, SummaryMemory(u, <<encode("summary")>>))

\* (variant: no memory is written)
summarize_and_store_never(mems, u, outcome) == mems

\* _summarize_and_store, its effect on the user_memories table
summarize_and_store(mems, u, outcome) ==
    IF outcome.ok THEN Append(mems, SummaryMemory(u, <<encode("summary")>>)) ELSE mems

\* `if current_tokens + summary_tokens <= self.max_context_tokens`
AddSummary(st, outcome, budget) ==
    IF st.tokens + outcome.total_tokens <= budget
       THEN [st EXCEPT !.tokens = @ + outcome.total_tokens,
                       !.context_messages =
                           Append(@, ContextMessage("system", "summary",
                                      SummaryPrefixLength + outcome.content, 0))]
    ELSE st

\* the state of the build before the memories step
BeforeMemories(c) ==
    LET budget == c.max_context_tokens
        s0 == [tokens |-> count_tokens(SystemPromptLength), context_messages |-> <<>>,
               for_context |-> <<>>, to_summarize |-> <<>>]
        s1 == IF c.preferred_language > 0
                 THEN AddIfFits(s0, "language",
                                LanguagePrefixLength + c.preferred_language, budget)
              ELSE s0
        s2 == IF c.conversation_topics # <<>>
                 THEN AddIfFits(s1, "topics", topics_text(c.conversation_topics), budget)
              ELSE s1
    IN  s2

\* (variant: every stored turn of the user is walked)
BeforeSummaryWholeHistory(c) ==
    LET budget == c.max_context_tokens
        s2 == BeforeMemories(c)
        mems == legacy_get_relevant_memories(c.memories, c.user)
        s3 == IF mems # <<>>
                 THEN AddIfFits(s2, "memories", memories_text(mems), budget)
              ELSE s2
    IN  WalkConversations(c.conversations, Len(c.conversations), s3, budget)

\* the state of the build before the summary step
BeforeSummary(c) ==
    LET budget == c.max_context_tokens
        s2 == BeforeMemories(c)
        mems == legacy_get_relevant_memories(c.memories, c.user)
        s3 == IF mems # <<>>
                 THEN AddIfFits(s2, "memories", memories_text(mems), budget)
              ELSE s2
        convs == Take(c.conversations, max_context_length * 2)
    IN  WalkConversations(convs, Len(convs), s3, budget)

\* (variant: summarization starts above the threshold only)
SummarizesAbove(c) == Len(BeforeSummary(c).to_summarize) > context_summary_threshold

Summarizes(c) == Len(BeforeSummary(c).to_summarize) >= context_summary_threshold

\* (variant: the system prompt is subject to the budget like any other item)
get_conversation_context_within_budget(c, outcome) ==
    LET s4 == BeforeSummary(c)
        s5 == IF Summarizes(c)
                 THEN AddSummary(s4, summarize_and_store_result(outcome), c.max_context_tokens)
              ELSE s4
    IN  (IF count_tokens(SystemPromptLength) <= c.max_context_tokens
            THEN <<ContextMessage("system", "system_prompt", SystemPromptLength, 0)>>
         ELSE <<>>)
            \o s5.context_messages \o s5.for_context

get_conversation_context(c, outcome) ==
    LET s4 == BeforeSummary(c)
        s5 == IF Summarizes(c)
                 THEN AddSummary(s4, summarize_and_store_result(outcome), c.max_context_tokens)
              ELSE s4
    IN  <<ContextMessage("system", "system_prompt", SystemPromptLength, 0)>>
            \o s5.context_messages \o s5.for_context

\* budgets: the configured 4000, one that leaves room for little beside the
\* system prompt, and one smaller than the system prompt
Budgets == {4000, 730, 700}

\* a short turn (2 + 2 estimated tokens) and a long one (1600 + 1600)
TurnChoices == {[message |-> 8, response |-> 8], [message |-> 6400, response |-> 6400]}

\* the provider's answers: summary length in characters and the
\* total_tokens it reports
SummaryOutcomes ==
    {SummaryFailed}
    \cup {[ok |-> st = "done", stage |-> st, content |-> l, total_tokens |-> t] :
             st \in {"embedding", "store", "done"}, l \in {200, 4000}, t \in {10, 300}}

\* what is stored for the user beside the turns: nothing, or one active
\* memory of 12 characters with an embedding
StoredMemories ==
    {<<>>, <<[user |-> "u1", memory_type |-> "fact", content |-> 12, importance |-> 10,
              embedding |-> <<4, 3>>, is_active |-> TRUE]>>}

\* histories longer than the window of 2 * max_context_length turns: the
\* turns of the window are alike, and so are the older ones
MaxHistory == 22

LongHistories ==
    {[i \in 1..n |-> IF i <= max_context_length * 2 THEN recent ELSE older] :
        n \in (max_context_length * 2 + 1)..MaxHistory,
        recent \in TurnChoices, older \in TurnChoices}

CtxInputs ==
    {[called |-> FALSE, user |-> "u1", max_context_tokens |-> b, preferred_language |-> l,
      conversation_topics |-> tp, memories |-> ms, conversations |-> cs] :
        b \in Budgets, l \in {0, 2}, tp \in {<<>>, <<6, 6, 6, 6>>}, ms \in StoredMemories,
        cs \in UNION {[1..n -> TurnChoices] : n \in 0..MaxTurns} \cup LongHistories}

\* one call of get_conversation_context; a summary that was produced is
\* also stored as a memory of importance 0.7
GetConversationContext ==
    /\ ~cfg.called
    /\ \E outcome \in IF Summarizes(cfg) THEN SummaryOutcomes ELSE {SummaryFailed} :
          /\ built' = get_conversation_context(cfg, outcome)
          /\ memories' = IF Summarizes(cfg)
                            THEN summarize_and_store(memories, cfg.user, outcome)
                         ELSE memories
          /\ sumCalls' = IF Summarizes(cfg)
                            THEN <<[impl |-> "legacy", user |-> cfg.user,
                                    turns |-> BeforeSummary(cfg).to_summarize,
                                    outcome |-> outcome,
                                    returned |-> summarize_and_store_result(outcome)]>>
                         ELSE <<>>
    /\ cfg' = [cfg EXCEPT !.called = TRUE]
    /\ UNCHANGED <<users, log, userContext, now, req, faults, repVars, memVars, rollVars, liveVars, userVars, hookVars, estVars, creationVars>>

\* MemoryService.summarize_conversations on the user's turns: "" for no
\* turns or when the LLM call or the write fails; a failed embedding is
\* swallowed by _generate_embedding and the memory written without one.
\* Returns the content only.
summarize_conversations_result(outcome) ==
    IF outcome.stage \in {"done", "embedding"}
       THEN [content |-> outcome.content, total_tokens |-> 0]
    ELSE [content |-> 0, total_tokens |-> 0]

SummarizeConversations ==
    /\ ~cfg.called
    /\ cfg.conversations # <<>>
    /\ \E outcome \in SummaryOutcomes :
          /\ memories' = IF outcome.stage = "done"
                            THEN Append(memories, SummaryMemory(cfg.user, encode("summary")))
                         ELSE IF outcome.stage = "embedding"
                            THEN Append(memories, SummaryMemory(cfg.user, NoEmbedding))
                         ELSE memories
          /\ sumCalls' = <<[impl |-> "service", user |-> cfg.user,
                            turns |-> [i \in 1..Len(cfg.conversations) |-> i],
                            outcome |-> outcome,
                            returned |-> summarize_conversations_result(outcome)]>>
    /\ cfg' = [cfg EXCEPT !.called = TRUE]
    /\ built' = built
    /\ UNCHANGED <<users, log, userContext, now, req, faults, repVars, memVars, rollVars, liveVars, userVars, hookVars, estVars, creationVars>>

InitCtx ==
    /\ InitProc
    /\ repIn = IdleRep /\ repOut = NotCalled
    /\ cfg \in CtxInputs /\ built = <<>> /\ sumCalls = <<>>
    /\ MemIdle /\ RollIdle /\ SchedIdle /\ UserIdle /\ HookIdle /\ EstIdle /\ CreationIdle

NextCtx == GetConversationContext \/ SummarizeConversations

SpecCtx == InitCtx /\ [][NextCtx]_vars

----------------------------------------------------------------------------
(* Successive calls of get_conversation_context for one user whose stored  *)
(* turns and preferences do not change in between.                         *)

MaxBuilds == 2

\* the summarization of a build fails at the provider or succeeds
BuildOutcomes ==
    {o \in SummaryOutcomes :
        o.stage \in {"llm", "done"} /\ (o.ok => o.content = 200 /\ o.total_tokens = 10)}

\* one more call: the walk starts from the stored turns again, and what it
\* hands to _summarize_and_store is recorded after the earlier calls
RepeatGetConversationContext ==
    /\ Len(sumCalls) < MaxBuilds
    /\ \E outcome \in IF Summarizes(cfg) THEN BuildOutcomes ELSE {SummaryFailed} :
          /\ built' = get_conversation_context(cfg, outcome)
          /\ memories' = IF Summarizes(cfg)
                            THEN summarize_and_store(memories, cfg.user, outcome)
                         ELSE memories
          /\ sumCalls' = IF Summarizes(cfg)
                            THEN Append(sumCalls,
                                        [impl |-> "legacy", user |-> cfg.user,
                                         turns |-> BeforeSummary(cfg).to_summarize,
                                         outcome |-> outcome,
                                         returned |-> summarize_and_store_result(outcome)])
                         ELSE sumCalls
    /\ cfg' = [cfg EXCEPT !.called = TRUE]
    /\ UNCHANGED <<users, log, userContext, now, req, faults, repVars, memVars, rollVars, liveVars, userVars, hookVars, estVars, creationVars>>

InitBuilds ==
    /\ InitCtx
    /\ cfg.preferred_language = 0 /\ cfg.conversation_topics = <<>> /\ cfg.memories = <<>>

NextBuilds == RepeatGetConversationContext

SpecBuilds == InitBuilds /\ [][NextBuilds]_vars

----------------------------------------------------------------------------
(* get_relevant_memories as a function of the stored memories.             *)
(* An importance is kept in tenths: 10 is 1.0, 5 is 0.5, 7 is 0.7.         *)

\* x / sqrt(n) > y / sqrt(m), for integers x, y and positive n, m
RootFractionGreater(x, n, y, m) ==
    IF x >= 0 /\ y < 0 THEN TRUE
    ELSE IF x < 0 /\ y >= 0 THEN FALSE
    ELSE IF x >= 0 THEN x * x * m > y * y * n
    ELSE x * x * m < y * y * n

\* cosine similarity to q of a greater than that of b
SimilarityGreater(q, a, b) ==
    RootFractionGreater(Dot(q, a), Dot(a, a), Dot(q, b), Dot(b, b))

\* the sort key of get_relevant_memories, similarity * importance, of
\* memory a greater than that of memory b
ScoreGreater(q, a, b) ==
    RootFractionGreater(Dot(q, a.embedding) * a.importance, Dot(a.embedding, a.embedding),
                        Dot(q, b.embedding) * b.importance, Dot(b.embedding, b.embedding))

\* list.sort(key=..., reverse=True) is stable: a memory goes after every
\* one whose key is not smaller and that came before it
InsertByScore(q, sorted, m) ==
    LET before == {i \in 1..Len(sorted) : ~ScoreGreater(q, m, sorted[i])}
        k == IF \E i \in 1..Len(sorted) : i \notin before
                THEN (CHOOSE i \in 1..Len(sorted) :
                         i \notin before /\ \A j \in 1..(i - 1) : j \in before) - 1
             ELSE Len(sorted)
    IN  SubSeq(sorted, 1, k) \o <<m>> \o SubSeq(sorted, k + 1, Len(sorted))

RECURSIVE SortByScore(_, _, _)
SortByScore(q, rows, sorted) ==
    IF rows = <<>> THEN sorted
    ELSE SortByScore(q, Tail(rows), InsertByScore(q, sorted, Head(rows)))

\* `if memory.embedding and len(memory.embedding) == len(query_embedding)`
\* on the rows WHERE user_id = :user AND is_active
Scored(rows, u, q) ==
    SelectSeq(rows, LAMBDA m : /\ m.user = u /\ m.is_active
                               /\ m.embedding # NoEmbedding
                               /\ Len(m.embedding) = Len(q))

\* (variant: the scored memories are returned in table order)
get_relevant_memories_unsorted(rows, u, q, limit) == Take(Scored(rows, u, q), limit)

\* SQLMemoryRepository.get_relevant_memories
get_relevant_memories(rows, u, q, limit) ==
    Take(SortByScore(q, Scored(rows, u, q), <<>>), limit)

MemoryRow(u, e, imp, active) ==
    [user |-> u, memory_type |-> "fact", importance |-> imp, embedding |-> e,
     is_active |-> active]

\* memories of the asking user with similarity 0.8, 0.6 and -0.8 to the
\* query and importance 0.5 or 1.0; one without embedding, one of another
\* dimension, one inactive, and one of another user
MemoryChoices ==
    {MemoryRow("u1", e, imp, TRUE) : e \in {<<4, 3>>, <<3, 4>>, <<-4, 3>>}, imp \in {5, 10}}
    \cup {MemoryRow("u1", NoEmbedding, 10, TRUE), MemoryRow("u1", <<1, 0, 0>>, 10, TRUE),
          MemoryRow("u1", <<1, 0>>, 10, FALSE), MemoryRow("u2", <<1, 0>>, 10, TRUE)}

\* the table's rows carry their primary key
WithIds(rows) == [i \in 1..Len(rows) |-> [id |-> i] @@ rows[i]]

MemInputs ==
    {[rows |-> WithIds(rs), user |-> "u1", embedding |-> QueryEmbedding, limit |-> l] :
        rs \in UNION {[1..n -> MemoryChoices] : n \in 0..MaxMemRows}, l \in {1, 2}}

SQLGetRelevantMemories ==
    /\ memOut.called = "no"
    /\ \/ memOut' = [called |-> "sql",
                     res |-> get_relevant_memories(memIn.rows, memIn.user,
                                                   memIn.embedding, memIn.limit)]
       \/ memOut' = [called |-> "sql", res |-> <<>>]      \* the query raised
    /\ UNCHANGED <<memIn, procVars, repVars, ctxVars, rollVars, liveVars, userVars, hookVars, estVars, creationVars>>

\* ConversationDB.get_relevant_memories
LegacyGetRelevantMemories ==
    /\ memOut.called = "no"
    /\ memOut' = [called |-> "legacy",
                  res |-> legacy_get_relevant_memories(memIn.rows, memIn.user)]
    /\ UNCHANGED <<memIn, procVars, repVars, ctxVars, rollVars, liveVars, userVars, hookVars, estVars, creationVars>>

InitMem ==
    /\ InitProc
    /\ RepIdle /\ CtxIdle /\ RollIdle /\ SchedIdle /\ UserIdle /\ HookIdle /\ EstIdle /\ CreationIdle
    /\ memIn \in MemInputs /\ memOut = MemNotCalled

NextMem == SQLGetRelevantMemories \/ LegacyGetRelevantMemories

SpecMem == InitMem /\ [][NextMem]_vars

----------------------------------------------------------------------------
(* The rolling context of one user under SQLContextManager, with one      *)
(* database session per request.  update_user_context awaits the select   *)
(* of the row, appends in memory and awaits the commit; another request's *)
(* session can run between the two awaits.                                *)

\* update_user_context calls one request makes (user, then assistant)
MaxCalls == 2

\* UserContext.context_window is a column; these are the values tried
Windows == {0, 1, 2, 3, 4}

Roles == <<"user", "assistant">>

RollEntry(s, k) ==
    [role |-> Roles[(k % 2) + 1], by |-> s, call |-> k + 1]

IdleSession == [pc |-> "select", loaded |-> <<>>, calls |-> 0, failed |-> FALSE]

\* _get_or_create_user_context: the session reads the stored row
SelectUserContext(s) ==
    /\ roll.sessions # <<>>
    /\ roll.sessions[s].pc = "select"
    /\ roll' = [roll EXCEPT
                  !.sessions[s].pc = "commit",
                  !.sessions[s].loaded = roll.stored,
                  !.overlapped =
                      @ \/ \E o \in Requests \ {s} : roll.sessions[o].pc = "commit"]
    /\ UNCHANGED <<procVars, repVars, ctxVars, memVars, liveVars, userVars, hookVars, estVars, creationVars>>

AfterCall(s) == IF roll.sessions[s].calls + 1 >= MaxCalls THEN "done" ELSE "select"

\* context.add_message(role, content); session.commit()
CommitUserContext(s) ==
    /\ roll.sessions # <<>>
    /\ roll.sessions[s].pc = "commit"
    /\ LET entry == RollEntry(s, roll.sessions[s].calls)
           messages == add_message(roll.sessions[s].loaded, entry, roll.window)
       IN  roll' = [roll EXCEPT
                      !.stored = messages,
                      !.appended = Append(@, entry),
                      !.sessions[s].pc = AfterCall(s),
                      !.sessions[s].loaded = messages,
                      !.sessions[s].calls = @ + 1]
    /\ UNCHANGED <<procVars, repVars, ctxVars, memVars, liveVars, userVars, hookVars, estVars, creationVars>>

\* except Exception: logged, nothing stored, the caller goes on
UpdateUserContextFailed(s) ==
    /\ roll.sessions # <<>>
    /\ roll.sessions[s].pc = "commit"
    /\ roll' = [roll EXCEPT
                  !.sessions[s].pc = AfterCall(s),
                  !.sessions[s].calls = @ + 1,
                  !.sessions[s].failed = TRUE]
    /\ UNCHANGED <<procVars, repVars, ctxVars, memVars, liveVars, userVars, hookVars, estVars, creationVars>>

InitRoll ==
    /\ InitProc
    /\ RepIdle /\ CtxIdle /\ MemIdle /\ SchedIdle /\ UserIdle /\ HookIdle /\ EstIdle /\ CreationIdle
    /\ roll \in {[window |-> w, stored |-> <<>>, appended |-> <<>>,
                  overlapped |-> FALSE,
                  sessions |-> [s \in Requests |-> IdleSession]] : w \in Windows}

NextRoll ==
    \E s \in Requests :
        \/ SelectUserContext(s)
        \/ CommitUserContext(s)
        \/ UpdateUserContextFailed(s)

SpecRoll == InitRoll /\ [][NextRoll]_vars

----------------------------------------------------------------------------
(* The requests on the event loop.  uvicorn serves the application on one *)
(* event loop: a coroutine runs until it awaits pending I/O, and only     *)
(* then can another request's coroutine run.  The database calls and the  *)
(* aiohttp call of generate_response await I/O; encode is declared async   *)
(* but calls the synchronous SentenceTransformer.encode, so the request   *)
(* keeps the loop until that call returns.  What the steps compute is in  *)
(* Spec; here only who can run is kept.                                   *)

\* the awaited calls of process_message, in order
Stages ==
    <<"get_or_create_user", "encode", "check_repetition",
      "get_recent_conversations", "generate_response", "add_conversation",
      "update_user_context", "done">>

StageIndex(stage) == CHOOSE i \in 1..Len(Stages) : Stages[i] = stage

StageAfter(stage) == Stages[StageIndex(stage) + 1]

DatabaseStages ==
    {"get_or_create_user", "check_repetition", "get_recent_conversations",
     "add_conversation", "update_user_context"}

Hangs ==
    {NoHang} \cup
    {[request |-> r, call |-> c] : r \in Requests, c \in {"encode", "generate_response"}}

LoopFree == sched.holder = 0

\* the webhook handler is entered
ReceiveRequest(r) ==
    /\ sched.pc # <<>>
    /\ sched.pc[r] = "idle"
    /\ LoopFree
    /\ sched' = [sched EXCEPT !.pc[r] = Stages[1]]
    /\ UNCHANGED <<procVars, repVars, ctxVars, memVars, rollVars, userVars, hookVars, estVars, creationVars>>

\* an awaited database call: issued, suspended, resumed with the result
DatabaseCall(r) ==
    /\ sched.pc # <<>>
    /\ sched.pc[r] \in DatabaseStages
    /\ LoopFree
    /\ sched' = [sched EXCEPT !.pc[r] = StageAfter(@)]
    /\ UNCHANGED <<procVars, repVars, ctxVars, memVars, rollVars, userVars, hookVars, estVars, creationVars>>

\* encode: self.model.encode(texts) starts on the loop's thread
EncodeCall(r) ==
    /\ sched.pc # <<>>
    /\ sched.pc[r] = "encode"
    /\ LoopFree
    /\ sched' = [sched EXCEPT !.pc[r] = "encoding", !.holder = r]
    /\ UNCHANGED <<procVars, repVars, ctxVars, memVars, rollVars, userVars, hookVars, estVars, creationVars>>

\* self.model.encode returns or raises; either way the request goes on
EncodeReturn(r) ==
    /\ sched.pc # <<>>
    /\ sched.pc[r] = "encoding"
    /\ sched.hang # [request |-> r, call |-> "encode"]
    /\ sched' = [sched EXCEPT !.pc[r] = StageAfter("encode"), !.holder = 0]
    /\ UNCHANGED <<procVars, repVars, ctxVars, memVars, rollVars, userVars, hookVars, estVars, creationVars>>

\* generate_response: the request is posted and the coroutine awaits it
GenerateCall(r) ==
    /\ sched.pc # <<>>
    /\ sched.pc[r] = "generate_response"
    /\ LoopFree
    /\ sched' = [sched EXCEPT !.pc[r] = "generating"]
    /\ UNCHANGED <<procVars, repVars, ctxVars, memVars, rollVars, userVars, hookVars, estVars, creationVars>>

\* the answer arrives, or the call raises and process_message falls back
GenerateReturn(r) ==
    /\ sched.pc # <<>>
    /\ sched.pc[r] = "generating"
    /\ sched.hang # [request |-> r, call |-> "generate_response"]
    /\ LoopFree
    /\ \E next \in {StageAfter("generate_response"), "done"} :
           sched' = [sched EXCEPT !.pc[r] = next]
    /\ UNCHANGED <<procVars, repVars, ctxVars, memVars, rollVars, userVars, hookVars, estVars, creationVars>>

InitLive ==
    /\ InitProc
    /\ RepIdle /\ CtxIdle /\ MemIdle /\ RollIdle /\ UserIdle /\ HookIdle /\ EstIdle /\ CreationIdle
    /\ sched \in {[holder |-> 0, pc |-> [r \in Requests |-> "idle"], hang |-> h] :
                     h \in Hangs}

RequestStep(r) ==
    \/ DatabaseCall(r)
    \/ EncodeCall(r)
    \/ EncodeReturn(r)
    \/ GenerateCall(r)
    \/ GenerateReturn(r)

NextLive == \E r \in Requests : ReceiveRequest(r) \/ RequestStep(r)

\* the loop runs every coroutine that is ready, and a call that is not the
\* hanging one returns
FairLive == \A r \in Requests : WF_vars(RequestStep(r))

SpecLive == InitLive /\ [][NextLive]_vars /\ FairLive

----------------------------------------------------------------------------
(* get_or_create_user called in sequence on the users table, by the        *)
(* repository and by ConversationDB (from add_conversation and add_memory). *)

MaxUserCalls == 3

UserCall(impl, u, res, fault) ==
    [impl |-> impl, user |-> u, raised |-> res.raised \/ fault, fault |-> fault]

SQLGetOrCreateUser(u) ==
    /\ Len(userCalls) < MaxUserCalls
    /\ \/ LET res == get_or_create_user(users, u)
          IN  /\ users' = res.rows
              /\ userCalls' = Append(userCalls, UserCall("sql", u, res, FALSE))
              /\ NoFault
       \/ /\ users' = users
          /\ userCalls' =
                 Append(userCalls, UserCall("sql", u, [raised |-> TRUE], TRUE))
          /\ Fault(1)
    /\ UNCHANGED <<log, userContext, memories, now, req>>
    /\ UNCHANGED <<repVars, ctxVars, memVars, rollVars, liveVars, hookVars, estVars, creationVars>>

LegacyGetOrCreateUser(u) ==
    /\ Len(userCalls) < MaxUserCalls
    /\ LET res == legacy_get_or_create_user(users, u)
       IN  /\ users' = res.rows
           /\ userCalls' = Append(userCalls, UserCall("legacy", u, res, FALSE))
    /\ NoFault
    /\ UNCHANGED <<log, userContext, memories, now, req>>
    /\ UNCHANGED <<repVars, ctxVars, memVars, rollVars, liveVars, hookVars, estVars, creationVars>>

InitUser ==
    /\ InitProc
    /\ RepIdle /\ CtxIdle /\ MemIdle /\ RollIdle /\ SchedIdle /\ HookIdle /\ EstIdle /\ CreationIdle
    /\ userCalls = <<>>

NextUser == \E u \in Users : SQLGetOrCreateUser(u) \/ LegacyGetOrCreateUser(u)

SpecUser == InitUser /\ [][NextUser]_vars

----------------------------------------------------------------------------
(* The webhook handlers: the router of webhook_controller.py, whose use   *)
(* case is built by the container for each request, and the handler of    *)
(* main.py, which calls MemoryManager.process_message.                    *)

MaxHookCalls == 2

\* a key that the JSON body does not have
Absent == "absent"

\* dict.get(key, "")
get_or_empty(value) == IF value = Absent THEN "" ELSE value

\* the bodies tried: the "message" and "user" objects present or not, and
\* in them "text" and "id" absent, empty or given
Bodies ==
    {[hasMessage |-> hm, text |-> t, hasUser |-> hu, id |-> i] :
        hm \in BOOLEAN, t \in {Absent, "", "hello"},
        hu \in BOOLEAN, i \in {Absent, "", "u1"}}
    \ {b \in [hasMessage : BOOLEAN, text : {Absent, "", "hello"},
              hasUser : BOOLEAN, id : {Absent, "", "u1"}] :
          (~b.hasMessage /\ b.text # Absent) \/ (~b.hasUser /\ b.id # Absent)}

\* the parameters of ConversationService.__init__
ServiceParameters ==
    {"llm_provider", "embedding_provider", "conversation_repository",
     "user_repository", "context_manager"}

\* the keywords Container.get_conversation_service passes
ContainerKeywords == ServiceParameters \cup {"memory_repository"}

\* a call with a keyword the function does not declare raises TypeError
get_process_message_use_case_raises == ~(ContainerKeywords \subseteq ServiceParameters)

Outcome(status, invoked) == [status |-> status, invoked |-> invoked]

\* webhook of webhook_controller.py.  The dependency is resolved before the
\* body is validated and before the handler runs; an exception in it is
\* answered with 500 by ErrorHandlerMiddleware.  A body without the
\* "message" or "user" object fails the validation of WebhookRequest (422).
controller_webhook(body) ==
    IF get_process_message_use_case_raises THEN Outcome(500, FALSE)
    ELSE IF ~body.hasMessage \/ ~body.hasUser THEN Outcome(422, FALSE)
    ELSE LET message_text == get_or_empty(body.text)
             user_id == get_or_empty(body.id)
         IN  IF message_text = "" \/ user_id = ""
                THEN Outcome(400, FALSE)
                ELSE Outcome(200, TRUE)

\* webhook of main.py.  HTTPException(400) is raised inside the try block
\* whose `except Exception` answers every exception with HTTPException(500).
\* process_message itself catches every exception and returns a dictionary.
legacy_webhook(body) ==
    LET message == get_or_empty(body.text)
        user_id == get_or_empty(body.id)
    IN  IF message = "" \/ user_id = ""
           THEN Outcome(500, FALSE)
           ELSE Outcome(200, TRUE)

HookCall(impl, body, outcome) ==
    [impl |-> impl, body |-> body, status |-> outcome.status,
     invoked |-> outcome.invoked]

ControllerWebhook ==
    /\ Len(hookCalls) < MaxHookCalls
    /\ \E body \in Bodies :
          hookCalls' = Append(hookCalls,
                              HookCall("controller", body, controller_webhook(body)))
    /\ UNCHANGED <<procVars, repVars, ctxVars, memVars, rollVars, liveVars, userVars, estVars, creationVars>>

LegacyWebhook ==
    /\ Len(hookCalls) < MaxHookCalls
    /\ \E body \in Bodies :
          hookCalls' = Append(hookCalls, HookCall("legacy", body, legacy_webhook(body)))
    /\ UNCHANGED <<procVars, repVars, ctxVars, memVars, rollVars, liveVars, userVars, estVars, creationVars>>

InitHook ==
    /\ InitProc
    /\ RepIdle /\ CtxIdle /\ MemIdle /\ RollIdle /\ SchedIdle /\ UserIdle /\ EstIdle /\ CreationIdle
    /\ hookCalls = <<>>

NextHook == ControllerWebhook \/ LegacyWebhook

SpecHook == InitHook /\ [][NextHook]_vars

----------------------------------------------------------------------------

(* The three stores and the writes the repositories make for one user,    *)
(* in any order and for any user: what every read for another user        *)
(* returns is compared before and after each write.                       *)

\* writes made in one run, and memories among them
MaxStoreWrites == 3
MaxStoreMemories == 2

StoreWrites ==
    Len(log) + Len(memories)
    + Len(userContext["u1"].context_messages) + Len(userContext["u2"].context_messages)

\* SQLConversationRepository.add_conversation for user v
StoreAddConversation(v) ==
    /\ StoreWrites < MaxStoreWrites
    /\ \E m \in Messages :
          log' = add_conversation(log,
                     [user |-> v, message |-> m, response |-> LLMContent(m),
                      embedding |-> encode(m), ts |-> now, by |-> 0])
    /\ UNCHANGED <<users, userContext, memories, now, req, faults>>
    /\ UNCHANGED <<repVars, ctxVars, memVars, rollVars, liveVars, userVars, hookVars, estVars, creationVars>>

\* SQLMemoryRepository.add_memory for user v
StoreAddMemory(v) ==
    /\ StoreWrites < MaxStoreWrites
    /\ Len(memories) < MaxStoreMemories
    /\ \E e \in {NoEmbedding, encode("hello")} :
          memories' = Append(memories, MemoryRow(v, e, 10, TRUE))
    /\ UNCHANGED <<users, log, userContext, now, req, faults>>
    /\ UNCHANGED <<repVars, ctxVars, memVars, rollVars, liveVars, userVars, hookVars, estVars, creationVars>>

\* SQLContextManager.update_user_context for user v
StoreUpdateContext(v) ==
    /\ StoreWrites < MaxStoreWrites
    /\ userContext' = update_user_context(userContext, v, "user", "hello", 0)
    /\ UNCHANGED <<users, log, memories, now, req, faults>>
    /\ UNCHANGED <<repVars, ctxVars, memVars, rollVars, liveVars, userVars, hookVars, estVars, creationVars>>

WriteFor(v) ==
    \/ StoreAddConversation(v)
    \/ StoreAddMemory(v)
    \/ StoreUpdateContext(v)

InitStore ==
    /\ InitProc
    /\ RepIdle /\ CtxIdle /\ MemIdle /\ RollIdle /\ SchedIdle /\ UserIdle /\ HookIdle /\ EstIdle /\ CreationIdle

NextStore == \E v \in Users : WriteFor(v)

SpecStore == InitStore /\ [][NextStore]_vars

----------------------------------------------------------------------------

(* MemoryManager._count_tokens applied to texts, each given by its length. *)

MaxTextLength == 12
MaxCounts == 3

CountTokens(i) ==
    /\ Len(est.counts) < MaxCounts
    /\ est' = [est EXCEPT !.counts =
                  Append(@, [text |-> i, tokens |-> count_tokens(est.texts[i])])]
    /\ UNCHANGED <<procVars, repVars, ctxVars, memVars, rollVars, liveVars, userVars, hookVars,
                   creationVars>>

InitEst ==
    /\ InitProc
    /\ RepIdle /\ CtxIdle /\ MemIdle /\ RollIdle /\ SchedIdle /\ UserIdle /\ HookIdle
    /\ CreationIdle
    /\ est \in {[texts |-> <<a, b>>, counts |-> <<>>] : a, b \in 0..MaxTextLength}

NextEst == \E i \in {1, 2} : CountTokens(i)

SpecEst == InitEst /\ [][NextEst]_vars

----------------------------------------------------------------------------

(* _get_or_create_user_context of SQLUserRepository and SQLContextManager  *)
(* for a user who has no user_context row yet.  Each request has its own   *)
(* session; user_context.user_id is the table's primary key.               *)

\* the calls of one process_message that reach _get_or_create_user_context:
\* get_user_preferences while the context is built, then update_user_context
\* for the user message and for the response
ContextCalls == <<"get_user_preferences", "update_user_context", "update_user_context">>

NewSession == [pc |-> "select", results |-> <<>>, pending_rollback |-> FALSE]

AfterContextCall(s) ==
    IF Len(creation.sessions[s].results) + 1 >= Len(ContextCalls) THEN "done" ELSE "select"

\* the call ends: "ok" when it returned the row (preferences read, message
\* appended), "conflict" when the commit of the new row raised and the
\* caller's except clause answered {} or dropped the append, "error" when
\* the session could not be used
EndContextCall(s, result) ==
    [creation EXCEPT !.sessions[s].pc = AfterContextCall(s),
                     !.sessions[s].results = Append(@, result)]

\* select(UserContext).where(user_id == ...); scalar_one_or_none()
SelectRow(s) ==
    /\ creation.sessions # <<>>
    /\ creation.sessions[s].pc = "select"
    /\ ~creation.sessions[s].pending_rollback
    /\ creation' = [creation EXCEPT
                      !.sessions[s].pc = IF creation.rows > 0 THEN "return" ELSE "insert"]
    /\ UNCHANGED <<procVars, repVars, ctxVars, memVars, rollVars, liveVars, userVars, hookVars, estVars>>

\* the row was found: the preferences are read from it, or the message is
\* appended to it and committed
ReturnRow(s) ==
    /\ creation.sessions # <<>>
    /\ creation.sessions[s].pc = "return"
    /\ creation' = EndContextCall(s, "ok")
    /\ UNCHANGED <<procVars, repVars, ctxVars, memVars, rollVars, liveVars, userVars, hookVars, estVars>>

\* session.add(UserContext(user_id=...)); session.commit(): the row is
\* written unless one with this primary key exists by now, in which case
\* the commit raises IntegrityError and the session is left to be rolled back
InsertRow(s) ==
    /\ creation.sessions # <<>>
    /\ creation.sessions[s].pc = "insert"
    /\ creation' =
          IF creation.rows = 0
             THEN [EndContextCall(s, "ok") EXCEPT !.rows = 1]
          ELSE [EndContextCall(s, "conflict") EXCEPT !.sessions[s].pending_rollback = TRUE]
    /\ UNCHANGED <<procVars, repVars, ctxVars, memVars, rollVars, liveVars, userVars, hookVars, estVars>>

\* a later call on a session whose commit failed and that was never rolled
\* back: the session either serves the call or raises again
UseFailedSession(s) ==
    /\ creation.sessions # <<>>
    /\ creation.sessions[s].pc = "select"
    /\ creation.sessions[s].pending_rollback
    /\ \/ creation' = EndContextCall(s, "error")
       \/ creation' = [creation EXCEPT !.sessions[s].pc = "return",
                                       !.sessions[s].pending_rollback = FALSE]
    /\ UNCHANGED <<procVars, repVars, ctxVars, memVars, rollVars, liveVars, userVars, hookVars, estVars>>

InitCreation ==
    /\ InitProc
    /\ RepIdle /\ CtxIdle /\ MemIdle /\ RollIdle /\ SchedIdle /\ UserIdle /\ HookIdle /\ EstIdle
    /\ creation = [rows |-> 0, sessions |-> [s \in Requests |-> NewSession]]

NextCreation ==
    \E s \in Requests :
        \/ SelectRow(s)
        \/ ReturnRow(s)
        \/ InsertRow(s)
        \/ UseFailedSession(s)

SpecCreation == InitCreation /\ [][NextCreation]_vars

----------------------------------------------------------------------------

(* Claims about process_message, checked under Spec.                       *)

Done(r) == req[r].pc = "done"

\* rows and rolling-context entries written by request r
RowsBy(r) == {i \in 1..Len(log) : log[i].by = r}

EntriesBy(r) ==
    {<<u, i>> \in Users \X (1..(2 * ContextWindow)) :
        /\ i <= Len(userContext[u].context_messages)
        /\ userContext[u].context_messages[i].by = r}

ReturnsGenerated(r) ==
    /\ req[r].content # None
    /\ req[r].result.response = req[r].content
    /\ "is_repetition" \in req[r].result.keys
    /\ ~req[r].result.is_repetition

ReturnsFallback(r) ==
    /\ req[r].result.response = FallbackResponse
    /\ req[r].result.keys = {"response", "error"}

\* C2: when the LLM call succeeded and add_conversation then failed, the
\* caller still receives the generated response with is_repetition = false.
C2_PersistFailureKeepsResponse ==
    \A r \in Requests :
        (Done(r) /\ "persist" \in req[r].failed /\ "generate" \notin req[r].failed)
            => ReturnsGenerated(r)

\* C3: the fallback message is returned only when the LLM generation call
\* itself failed, never because of a failure in another step.
C3_FallbackOnlyWhenGenerationFails ==
    \A r \in Requests :
        (Done(r) /\ ReturnsFallback(r)) => "generate" \in req[r].failed

\* C4: when the LLM generation call fails, process_message ends at once
\* with exactly the fallback dictionary, having called the LLM once, and
\* neither the conversation log nor the rolling context holds anything
\* written by that request.
C4_GenerationFailureFallback ==
    \A r \in Requests :
        "generate" \in req[r].failed =>
            /\ Done(r)
            /\ req[r].result = FallbackResult
            /\ req[r].llmCalls = 1
            /\ RowsBy(r) = {}
            /\ EntriesBy(r) = {}

C4_Witness ==
    \E r \in Requests : Done(r) /\ "generate" \in req[r].failed /\ ReturnsFallback(r)

\* C5: when the embedding provider fails, the repository is never asked for
\* a repetition; the request goes on to assemble the context and call the
\* LLM, every turn it persists carries no embedding, and unless generation
\* or persistence raises it persists its turn and returns the generated
\* response.
C5_EmbeddingFailureDegrades ==
    \A r \in Requests :
        "embed" \in req[r].failed =>
            /\ req[r].repQueries = 0
            /\ ~req[r].result.is_repetition
            /\ \A i \in RowsBy(r) : log[i].embedding = NoEmbedding
            /\ (Done(r) /\ req[r].failed \cap {"generate", "persist"} = {}) =>
                  /\ req[r].context # <<>>
                  /\ req[r].llmCalls = 1
                  /\ Cardinality(RowsBy(r)) = 1
                  /\ ReturnsGenerated(r)

C5_Witness ==
    \E r \in Requests :
        /\ Done(r) /\ "embed" \in req[r].failed
        /\ ReturnsGenerated(r)
        /\ \E i \in RowsBy(r) : log[i].embedding = NoEmbedding

\* C6: the steps of one request run in the order get-or-create user, embed,
\* repetition check, assemble context, generate, persist turn, append user
\* entry, append assistant entry; a turn is persisted only after a
\* successful generation, the rolling context is appended only after the
\* persist step, and the user entry comes before the assistant entry.
StepOrder ==
    <<"get_or_create_user", "embed", "check_repetition", "assemble_context",
      "generate", "persist", "append_user", "append_assistant">>

IsPrefix(s, t) == Len(s) <= Len(t) /\ \A i \in 1..Len(s) : s[i] = t[i]

InTrace(r, step) == \E i \in 1..Len(req[r].trace) : req[r].trace[i] = step

C6_StepOrder ==
    \A r \in Requests :
        /\ IsPrefix(req[r].trace, StepOrder)
        /\ RowsBy(r) # {} => (InTrace(r, "generate") /\ "generate" \notin req[r].failed)
        /\ EntriesBy(r) # {} => (InTrace(r, "persist") /\ "persist" \notin req[r].failed)
        /\ \A e \in EntriesBy(r), f \in EntriesBy(r) :
              LET msgs == userContext[e[1]].context_messages
              IN  (e[1] = f[1] /\ msgs[e[2]].role = "user" /\ msgs[f[2]].role = "assistant")
                      => e[2] < f[2]

C6_Witness ==
    \E r \in Requests :
        /\ Done(r) /\ req[r].trace = StepOrder
        /\ RowsBy(r) # {}
        /\ Cardinality(EntriesBy(r)) = 2

\* C7: when the repetition check reports a match, process_message ends with
\* is_repetition = true and the matched turn, without an LLM call, without
\* a new conversation row, and the step that ends it leaves the log, the
\* rolling contexts and the memories as they were.
C7_ShortCircuitState ==
    \A r \in Requests :
        req[r].result.is_repetition =>
            /\ Done(r)
            /\ req[r].llmCalls = 0
            /\ RowsBy(r) = {}
            /\ EntriesBy(r) = {}
            /\ \E i \in 1..Len(log) :
                  /\ req[r].result.similar = <<log[i]>>
                  /\ log[i].user = req[r].user
                  /\ req[r].result.response = log[i].response
                  /\ SimilarityExceeds(req[r].embedding, log[i].embedding,
                                       ThresholdNum, ThresholdDen)

C7_ShortCircuitFrame ==
    \A r \in Requests :
        (req[r].pc = "check_repetition" /\ req'[r].pc = "done") =>
            (log' = log /\ userContext' = userContext /\ memories' = memories)

C7_RepetitionShortCircuit == [](C7_ShortCircuitState) /\ [][C7_ShortCircuitFrame]_vars

C7_Witness ==
    \E r \in Requests :
        /\ Done(r) /\ req[r].result.is_repetition
        /\ memories # <<>>
        /\ req[r].result.similar # <<>>

\* the log holds no turn of the user of request r other than its own
NoOtherHistory(r) ==
    \A i \in 1..Len(log) : log[i].user = req[r].user => log[i].by = r

SystemPromptMessage == [role |-> "system", content |-> SystemPrompt]

C23_LogAppendOnly == [][IsPrefix(log, log')]_vars

C23_Witness ==
    \E r \in Requests, q \in Requests :
        /\ r # q /\ Done(r) /\ Done(q)
        /\ req[r].user = req[q].user
        /\ RowsBy(r) # {} /\ RowsBy(q) # {}

\* the three terminal outcomes of a request
OutcomeDone(r) ==
    /\ ReturnsGenerated(r)
    /\ req[r].result.response = LLMContent(req[r].message)
    /\ req[r].failed \cap {"get_or_create_user", "generate", "persist"} = {}

OutcomeRepetition(r) ==
    /\ req[r].result.is_repetition
    /\ \E i \in 1..Len(log) :
          /\ log[i].user = req[r].user
          /\ req[r].result = RepetitionResult(log[i])

OutcomeFallback(r) ==
    /\ req[r].result = FallbackResult
    /\ req[r].failed \cap {"get_or_create_user", "generate", "persist"} # {}

C25_OneOutcome ==
    \A r \in Requests :
        /\ Done(r) =>
              \/ OutcomeDone(r) /\ ~OutcomeRepetition(r) /\ ~OutcomeFallback(r)
              \/ OutcomeRepetition(r) /\ ~OutcomeDone(r) /\ ~OutcomeFallback(r)
              \/ OutcomeFallback(r) /\ ~OutcomeDone(r) /\ ~OutcomeRepetition(r)
        /\ ~Done(r) => req[r].result = NoResult

C25_OutcomeKept ==
    \A r \in Requests : Done(r) => req'[r] = req[r]

\* C25: when every provider and storage call returns, every received message
\* reaches a terminal state; there it has exactly one outcome, which it
\* keeps: the whole LLM content, the stored response of the matched turn, or
\* the fallback message.  Nothing is returned before, and never a part of
\* the LLM content.
C25_ReachesOneOutcome ==
    /\ []C25_OneOutcome
    /\ [][C25_OutcomeKept]_vars
    /\ \A r \in Requests : (req[r].pc = "received") ~> Done(r)

C25_Witness ==
    \E r \in Requests, q \in Requests :
        /\ Done(r) /\ OutcomeDone(r)
        /\ Done(q) /\ (OutcomeRepetition(q) \/ OutcomeFallback(q))

\* C38: every turn of the log holds the content the LLM returned for the
\* turn's message; a request whose generation failed, or that was answered
\* from an earlier turn as a repetition, has written no turn.
C38_OnlyGeneratedTurnsPersisted ==
    /\ \A i \in 1..Len(log) :
          /\ log[i].response = LLMContent(log[i].message)
          /\ log[i].response # FallbackResponse
    /\ \A r \in Requests :
          /\ RowsBy(r) # {} =>
                (InTrace(r, "generate") /\ "generate" \notin req[r].failed
                    /\ ~req[r].result.is_repetition)
          /\ (Done(r) /\ (req[r].result.is_repetition \/ "generate" \in req[r].failed))
                => RowsBy(r) = {}

C38_Witness ==
    \E r \in Requests, q \in Requests :
        /\ q # r
        /\ Done(r) /\ ReturnsGenerated(r) /\ RowsBy(r) # {}
        /\ Done(q) /\ req[q].result.is_repetition /\ RowsBy(q) = {}
        /\ req[q].result.response = log[CHOOSE i \in RowsBy(r) : TRUE].response

----------------------------------------------------------------------------
(* Claims about check_repetition, under SpecRep and SpecRepDim.            *)

\* the rows the call looks at: the user's, and for the windowed query those
\* not older than the window
Candidates(called) ==
    {i \in DOMAIN repIn.rows :
        /\ repIn.rows[i].user = repIn.user
        /\ called = "sql" => repIn.rows[i].ts >= repIn.now - TimeWindowSeconds}

Comparable(i) == Len(repIn.rows[i].embedding) = Len(repIn.embedding)

Exceeds(i) ==
    /\ Comparable(i)
    /\ SimilarityExceeds(repIn.embedding, repIn.rows[i].embedding, ThresholdNum, ThresholdDen)

Newer(j, i) == repIn.rows[j].ts > repIn.rows[i].ts

\* C8: check_repetition returns the newest candidate whose similarity to the
\* new embedding is strictly above the threshold (whether or not an older
\* candidate is more similar, and never one at the threshold exactly), and
\* no match when no candidate is above it.
C8_NewestExceedingWins ==
    repOut.called # "no" =>
        LET M == {i \in Candidates(repOut.called) : Exceeds(i)}
        IN  IF M = {} THEN ~repOut.res.found
            ELSE /\ repOut.res.found
                 /\ \E i \in M : /\ \A j \in M : ~Newer(j, i)
                                 /\ repOut.res.conv = <<repIn.rows[i]>>

\* C9: the repetition check never matches a turn more than 30 seconds older
\* than the current time, and it reports a match when the user has a turn
\* 29 seconds old whose similarity is above the threshold.
C9_ThirtySecondWindow ==
    repOut.called # "no" =>
        /\ repOut.res.found => repOut.res.conv[1].ts >= repIn.now - TimeWindowSeconds
        /\ (\E i \in DOMAIN repIn.rows :
                /\ repIn.rows[i].user = repIn.user
                /\ repIn.rows[i].ts = repIn.now - 29
                /\ Exceeds(i))
           => repOut.res.found

\* C10: a candidate above the threshold is returned when every newer
\* candidate is one to skip: its embedding is missing, of another dimension,
\* or not above the threshold.
C10_SkipsIncomparable ==
    repOut.called = "sql" =>
        \A i \in Candidates("sql") :
            (Exceeds(i) /\ \A j \in Candidates("sql") : Newer(j, i) => ~Exceeds(j))
            => (repOut.res.found /\ repOut.res.conv = <<repIn.rows[i]>>)

----------------------------------------------------------------------------
(* Claims about get_conversation_context, under SpecCtx.                   *)

\* the estimate of what was returned beside the system prompt
EstimatedTokens(msgs) ==
    SumSeq([i \in 1..Len(msgs) |->
               IF msgs[i].kind = "system_prompt" THEN 0 ELSE count_tokens(msgs[i].length)])

\* C1: the messages returned by get_conversation_context, the system prompt
\* excluded, have an estimated token count of at most max_context_tokens.
C1_WithinBudget ==
    cfg.called => EstimatedTokens(built) <= cfg.max_context_tokens

----------------------------------------------------------------------------
(* Claims about get_relevant_memories, under SpecMem.                      *)

\* memory a is at least as similar and at least as important as b, and
\* more of one of the two
Dominates(a, b) ==
    /\ ~SimilarityGreater(memIn.embedding, b.embedding, a.embedding)
    /\ a.importance >= b.importance
    /\ \/ SimilarityGreater(memIn.embedding, a.embedding, b.embedding)
       \/ a.importance > b.importance

\* C11: of two memories returned by get_relevant_memories, one that is at
\* least as similar and at least as important as the other, and strictly
\* more of one of the two, comes first.
C11_RankingMonotonic ==
    memOut.called # "no" =>
        \A i \in 1..Len(memOut.res), j \in 1..Len(memOut.res) :
            Dominates(memOut.res[i], memOut.res[j]) => i < j

\* the memories get_relevant_memories may return: active, of the asking
\* user, with an embedding of the query's dimension
Eligible(m) ==
    /\ m.user = memIn.user /\ m.is_active
    /\ Len(m.embedding) = Len(memIn.embedding)

InResult(m) == \E i \in 1..Len(memOut.res) : memOut.res[i] = m

\* C12: get_relevant_memories returns at most `limit` memories, each one an
\* eligible row of the table and none twice, in non-increasing order of
\* similarity * importance, and no eligible memory left out has a larger
\* product than one returned.
C12_TopByProduct ==
    memOut.called = "sql" =>
        LET res == memOut.res
            Q   == memIn.embedding
        IN  /\ Len(res) <= memIn.limit
            /\ \A i \in 1..Len(res) :
                  /\ \E k \in 1..Len(memIn.rows) : memIn.rows[k] = res[i]
                  /\ Eligible(res[i])
            /\ \A i \in 1..Len(res), j \in 1..Len(res) :
                  /\ i < j => ~ScoreGreater(Q, res[j], res[i])
                  /\ i # j => res[i].id # res[j].id
            /\ \A k \in 1..Len(memIn.rows), i \in 1..Len(res) :
                  (Eligible(memIn.rows[k]) /\ ~InResult(memIn.rows[k]))
                      => ~ScoreGreater(Q, memIn.rows[k], res[i])

\* similarity 0.8 with importance 1.0 first, then similarity 0.6 with
\* importance 1.0 (product 0.6), and similarity 0.8 with importance 0.5
\* (product 0.4) left out by the limit
C12_Witness ==
    /\ memOut.called = "sql" /\ Len(memOut.res) = 2
    /\ memOut.res[1].embedding = <<4, 3>> /\ memOut.res[1].importance = 10
    /\ memOut.res[2].embedding = <<3, 4>> /\ memOut.res[2].importance = 10
    /\ \E k \in 1..Len(memIn.rows) :
          /\ memIn.rows[k].embedding = <<4, 3>> /\ memIn.rows[k].importance = 5
          /\ Eligible(memIn.rows[k]) /\ ~InResult(memIn.rows[k])

----------------------------------------------------------------------------
(* Claims about the memories and the summarization of a context build,     *)
(* under SpecCtx.                                                          *)

\* get_conversation_context has returned
BuildDone == cfg.called /\ built # <<>>

HasKind(kind) == \E i \in 1..Len(built) : built[i].kind = kind

\* the user's active memories that carry an embedding
UsableMemories ==
    SelectSeq(cfg.memories,
              LAMBDA m : m.user = cfg.user /\ m.is_active /\ m.embedding # NoEmbedding)

\* C13: when the user has an active memory with an embedding and the block
\* listing the (up to 5) memories fits what is left of the budget after the
\* preference messages, the returned context holds a memories message.
C13_MemoriesListed ==
    BuildDone =>
        LET shown == Take(UsableMemories, MemoryLimit)
            block == memories_text([i \in 1..Len(shown) |-> shown[i].content])
        IN  (shown # <<>>
             /\ BeforeMemories(cfg).tokens + count_tokens(block) <= cfg.max_context_tokens)
                => HasKind("memories")

\* the recent turns that are not in the returned context as messages
Overflow ==
    {i \in 1..Len(Take(cfg.conversations, max_context_length * 2)) :
        ~\E k \in 1..Len(built) : built[k].turn = i}

LegacyCalls == SelectSeq(sumCalls, LAMBDA c : c.impl = "legacy")

\* C14: a context build calls the summarization once when at least
\* context_summary_threshold recent turns are left out of the per-turn
\* messages and not at all otherwise; the call is given exactly those
\* turns, each once.
C14_SummarizesOverflowOnce ==
    BuildDone =>
        /\ Len(LegacyCalls) =
              (IF Cardinality(Overflow) >= context_summary_threshold THEN 1 ELSE 0)
        /\ \A n \in 1..Len(LegacyCalls) :
              LET turns == LegacyCalls[n].turns
              IN  /\ {turns[i] : i \in 1..Len(turns)} = Overflow
                  /\ Len(turns) = Cardinality(Overflow)
                  /\ \A i \in 1..Len(turns), k \in 1..Len(built) : built[k].turn # turns[i]

C14_Witness ==
    /\ BuildDone /\ Len(LegacyCalls) = 1
    /\ Cardinality(Overflow) = context_summary_threshold
    /\ HasKind("user")

\* the summarization got its answer from the LLM and its write was accepted
Persisted(c) ==
    \/ c.outcome.stage = "done"
    \/ c.impl = "service" /\ c.outcome.stage = "embedding"

\* C15: when the summarization LLM call succeeded and the memory was
\* written, the user has exactly one new memory, of kind summarization and
\* importance 0.7, whether or not the summary message is in the context.
C15_SummaryPersisted ==
    \A n \in 1..Len(sumCalls) :
        Persisted(sumCalls[n]) =>
            /\ Len(memories) = 1
            /\ memories[1].user = sumCalls[n].user
            /\ memories[1].memory_type = "summarization"
            /\ memories[1].importance = 7

\* a summary that did not fit the budget, and its memory persisted
C15_Witness ==
    /\ BuildDone /\ Len(LegacyCalls) = 1
    /\ LegacyCalls[1].outcome.stage = "done"
    /\ ~HasKind("summary")
    /\ Len(memories) = 1

\* C16: when the summarization LLM call fails, the summarization returns
\* the empty string and a zero count, no memory is written, and the context
\* build returns its context.
C16_SummaryFailureContained ==
    \A n \in 1..Len(sumCalls) :
        sumCalls[n].outcome.stage = "llm" =>
            /\ sumCalls[n].returned = [content |-> 0, total_tokens |-> 0]
            /\ memories = <<>>
            /\ sumCalls[n].impl = "legacy" =>
                  (cfg.called /\ built # <<>> /\ built[1].kind = "system_prompt")

C16_Witness ==
    /\ BuildDone /\ Len(LegacyCalls) = 1
    /\ LegacyCalls[1].outcome.stage = "llm"
    /\ HasKind("assistant")
    /\ memories = <<>>

----------------------------------------------------------------------------
(* Claims about the rolling context, checked under SpecRoll.               *)

RollDone == \A s \in Requests : roll.sessions[s].pc = "done"

Stored(e) == \E i \in 1..Len(roll.stored) : roll.stored[i] = e

\* C17: for every window W >= 0, after n appends made one after another the
\* stored context is exactly the last min(n, W) appended entries, in order.
C17_LastWindowEntries ==
    (roll.sessions # <<>> /\ ~roll.overlapped)
        => roll.stored = LastN(roll.appended, Min(Len(roll.appended), roll.window))

\* C18: when two requests of one user overlap and neither update fails, every
\* appended entry that the window has room for is in the stored context.
C18_NoLostAppend ==
    (/\ roll.sessions # <<>>
     /\ RollDone
     /\ \A s \in Requests : ~roll.sessions[s].failed
     /\ Len(roll.appended) <= roll.window)
        => \A i \in 1..Len(roll.appended) : Stored(roll.appended[i])

----------------------------------------------------------------------------
(* Claims about the event loop, checked under SpecLive.                    *)

InFlight(r) == sched.pc # <<>> /\ sched.pc[r] \notin {"idle", "done"}

HangsIn(r) == sched.hang.request = r

\* C19: if the embedding or LLM call of one request never returns, every
\* other request in flight eventually reaches its terminal state.
C19_OthersProgress ==
    \A r \in Requests : \A q \in Requests \ {r} :
        (HangsIn(r) /\ InFlight(q)) ~> (sched.pc[q] = "done")

----------------------------------------------------------------------------
(* Claims about get_or_create_user, checked under SpecUser.                *)

UserRows(u) == {i \in 1..Len(users) : users[i] = u}

\* C20: get_or_create_user called again for an id it has already created
\* leaves exactly one User record with that id, and the later call raises
\* no error (a call raises only when the database itself fails).
C20_GetOrCreateIdempotent ==
    \A i \in 1..Len(userCalls) :
        /\ userCalls[i].raised => userCalls[i].fault
        /\ ~userCalls[i].raised => Cardinality(UserRows(userCalls[i].user)) = 1

C20_Witness ==
    \E i, j \in 1..Len(userCalls) :
        /\ i < j
        /\ userCalls[i].user = userCalls[j].user
        /\ userCalls[i].impl = "sql" /\ userCalls[j].impl = "sql"
        /\ ~userCalls[i].raised /\ ~userCalls[j].raised
        /\ Cardinality(UserRows(userCalls[i].user)) = 1

----------------------------------------------------------------------------
(* Claims about the webhook handlers, checked under SpecHook.              *)

MissingOrEmpty(body) == get_or_empty(body.text) = "" \/ get_or_empty(body.id) = ""

\* C22: a webhook request whose message text or user id is missing or empty
\* is answered with HTTP 400, and process_message is not invoked for it.
C22_RejectedWithClientError ==
    \A i \in 1..Len(hookCalls) :
        MissingOrEmpty(hookCalls[i].body) =>
            (hookCalls[i].status = 400 /\ ~hookCalls[i].invoked)

\* C39: a request to the router's webhook that carries a non-empty message
\* text and a non-empty user id is handed to ProcessMessageUseCase.execute
\* and answered with a success status.
C39_WellFormedIsProcessed ==
    \A i \in 1..Len(hookCalls) :
        (hookCalls[i].impl = "controller" /\ hookCalls[i].body.hasMessage
            /\ hookCalls[i].body.hasUser /\ ~MissingOrEmpty(hookCalls[i].body))
           => (hookCalls[i].status = 200 /\ hookCalls[i].invoked)

----------------------------------------------------------------------------
(* Claims about the separation of users, checked under SpecStore.          *)

\* what is stored for user u
PartitionOf(u) ==
    [turns |-> ConversationsOf(log, u),
     memories |-> SelectSeq(WithIds(memories), LAMBDA m : m.user = u),
     context |-> userContext[u]]

\* what the reads made for user u return: the repetition verdict for each
\* message, the assembled context, and the relevant memories
ReadsOf(u) ==
    [verdict |-> [m \in Messages |->
                     check_repetition(log, u, encode(m), now,
                                      ThresholdNum, ThresholdDen, TimeWindowSeconds)],
     context |-> build_conversation_context(
                     userContext[u].preferred_language,
                     get_recent_conversations(log, u, RecentLimit)),
     memories |-> get_relevant_memories(WithIds(memories), u, encode("hello"),
                                        MemoryLimit)]

\* C24: a write made for one user changes neither what is stored for
\* another user nor what the repetition check, the context assembly and the
\* memory retrieval return for that other user.
C24_UsersSeparated ==
    [][\A v \in Users : \A u \in Users \ {v} :
          WriteFor(v) => (PartitionOf(u)' = PartitionOf(u) /\ ReadsOf(u)' = ReadsOf(u))]_vars

C24_Witness ==
    \E u \in Users : \E v \in Users \ {u} :
        /\ ReadsOf(u).memories # <<>>
        /\ \E m \in Messages : ReadsOf(u).verdict[m].found
        /\ Len(ReadsOf(u).context) > 1
        /\ PartitionOf(v).turns # <<>>

----------------------------------------------------------------------------
(* Claims about _count_tokens, checked under SpecEst.                      *)

LengthOf(c) == est.texts[c.text]

\* C26: the estimate of a text is the largest k with 4k <= len(text); it is
\* 0 for the empty text; the same text always gets the same estimate; a
\* text at least as long as another never gets a smaller one; and a call
\* changes nothing but its result.
C26_EstimateState ==
    \A i \in 1..Len(est.counts) :
        LET c == est.counts[i]
        IN  /\ 4 * c.tokens <= LengthOf(c) /\ LengthOf(c) < 4 * (c.tokens + 1)
            /\ LengthOf(c) = 0 => c.tokens = 0
            /\ \A j \in 1..Len(est.counts) :
                  LET d == est.counts[j]
                  IN  /\ LengthOf(d) = LengthOf(c) => d.tokens = c.tokens
                      /\ LengthOf(d) >= LengthOf(c) => d.tokens >= c.tokens

C26_EstimateFrame ==
    /\ est'.texts = est.texts
    /\ \A i \in 1..Len(est.counts) : est'.counts[i] = est.counts[i]

C26_Estimate == []C26_EstimateState /\ [][C26_EstimateFrame]_vars

C26_Witness ==
    \E i, j, k \in 1..Len(est.counts) :
        /\ i < j /\ est.counts[i].text = est.counts[j].text
        /\ est.counts[k].text # est.counts[i].text
        /\ LengthOf(est.counts[i]) = 0
        /\ LengthOf(est.counts[k]) > 4 /\ LengthOf(est.counts[k]) % 4 # 0

----------------------------------------------------------------------------
(* Claims about the turns of get_conversation_context, checked under       *)
(* SpecCtx.  Turn i of cfg.conversations is the i-th newest.                *)

\* C27: the turns handed to _summarize_and_store are listed oldest first:
\* a turn listed before another is the older of the two.
C27_OverflowOldestFirst ==
    \A k \in 1..Len(sumCalls) :
        sumCalls[k].impl = "legacy" =>
            \A a, b \in 1..Len(sumCalls[k].turns) :
                a < b => sumCalls[k].turns[a] > sumCalls[k].turns[b]


\* the positions of the returned context that hold a message of turn i
PositionsOfTurn(i) ==
    {k \in 1..Len(built) : built[k].role \in {"user", "assistant"} /\ built[k].turn = i}

RecentWindow == Take(cfg.conversations, max_context_length * 2)

\* C28: for every turn of the recent window the returned context holds
\* either nothing of it, or exactly its user message immediately followed
\* by its assistant message, each as long as the stored text.
C28_TurnWholeOrAbsent ==
    cfg.called /\ built # <<>> =>
        \A i \in 1..Len(RecentWindow) :
            \/ PositionsOfTurn(i) = {}
            \/ \E k \in 1..(Len(built) - 1) :
                  /\ PositionsOfTurn(i) = {k, k + 1}
                  /\ built[k].role = "user"
                  /\ built[k].length = RecentWindow[i].message
                  /\ built[k + 1].role = "assistant"
                  /\ built[k + 1].length = RecentWindow[i].response

C28_Witness ==
    /\ cfg.called /\ built # <<>>
    /\ \E i, j \in 1..Len(RecentWindow) :
          /\ PositionsOfTurn(i) # {}
          /\ PositionsOfTurn(j) = {}
          /\ RecentWindow[j].message = RecentWindow[i].message


\* The items of one build in the order the build considers them: the
\* language declaration, the topics block, the memories block, then the
\* turns of the recent window from the oldest (highest index) to the newest.
ItemKinds == <<"language", "topics", "memories">>

ItemRank(m) ==
    IF m.kind = "language" THEN 1
    ELSE IF m.kind = "topics" THEN 2
    ELSE IF m.kind = "memories" THEN 3
    ELSE IF m.kind \in {"user", "assistant"} THEN 4 + Len(RecentWindow) - m.turn
    ELSE 0

\* the length of the full text of a system item, 0 when the user has none
ItemLength(kind) ==
    IF kind = "language"
       THEN IF cfg.preferred_language > 0
               THEN LanguagePrefixLength + cfg.preferred_language ELSE 0
    ELSE IF kind = "topics"
       THEN IF cfg.conversation_topics # <<>>
               THEN topics_text(cfg.conversation_topics) ELSE 0
    ELSE IF legacy_get_relevant_memories(cfg.memories, cfg.user) # <<>>
       THEN memories_text(legacy_get_relevant_memories(cfg.memories, cfg.user))
    ELSE 0

\* estimated tokens of the system prompt and of the returned messages of
\* the items considered before rank, counted over built[1..k]
RECURSIVE TokensBefore(_, _)
TokensBefore(k, rank) ==
    IF k = 0 THEN 0
    ELSE TokensBefore(k - 1, rank)
         + (IF built[k].kind = "system_prompt"
                \/ (ItemRank(built[k]) > 0 /\ ItemRank(built[k]) < rank)
               THEN count_tokens(built[k].length) ELSE 0)

Returned(kind) == \E k \in 1..Len(built) : built[k].kind = kind

\* C29: each item is in the returned context exactly when it fitted the
\* budget left by the items returned before it, whatever was skipped
\* earlier, and a returned item has the full length of its text.
C29_SkippedWholeAndContinue ==
    cfg.called /\ built # <<>> =>
        /\ \A n \in 1..3 :
              ItemLength(ItemKinds[n]) > 0 =>
                  /\ Returned(ItemKinds[n]) <=>
                        TokensBefore(Len(built), n) + count_tokens(ItemLength(ItemKinds[n]))
                            <= cfg.max_context_tokens
                  /\ \A k \in 1..Len(built) :
                        built[k].kind = ItemKinds[n] =>
                            built[k].length = ItemLength(ItemKinds[n])
        /\ \A k \in 1..Len(built) :
              built[k].kind \in {"language", "topics", "memories"} =>
                  ItemLength(built[k].kind) > 0
        /\ \A i \in 1..Len(RecentWindow) :
              /\ PositionsOfTurn(i) # {} <=>
                    TokensBefore(Len(built), 4 + Len(RecentWindow) - i)
                       + count_tokens(RecentWindow[i].message)
                       + count_tokens(RecentWindow[i].response)
                          <= cfg.max_context_tokens
              /\ \A k \in PositionsOfTurn(i) :
                    built[k].length = IF built[k].role = "user"
                                         THEN RecentWindow[i].message
                                      ELSE RecentWindow[i].response

C29_Witness ==
    /\ cfg.called /\ built # <<>>
    /\ ItemLength("topics") > 0 /\ ~Returned("topics")
    /\ \E i, j \in 1..Len(RecentWindow) :
          /\ i < j
          /\ PositionsOfTurn(j) = {}
          /\ PositionsOfTurn(i) # {}


\* get_conversation_context has returned
ContextReturned ==
    cfg.called /\ \A k \in 1..Len(sumCalls) : sumCalls[k].impl = "legacy"

\* C30: the returned context starts with the system prompt, holds it once,
\* and holds nothing else when the estimate of the system prompt alone is
\* above max_context_tokens.
C30_SystemPromptAlwaysFirst ==
    ContextReturned =>
        /\ Len(built) >= 1
        /\ built[1] = ContextMessage("system", "system_prompt", SystemPromptLength, 0)
        /\ \A k \in 2..Len(built) : built[k].kind # "system_prompt"
        /\ count_tokens(SystemPromptLength) > cfg.max_context_tokens => Len(built) = 1

C30_Witness ==
    /\ ContextReturned
    /\ count_tokens(SystemPromptLength) > cfg.max_context_tokens
    /\ cfg.preferred_language > 0
    /\ cfg.conversation_topics # <<>>
    /\ \E k \in 1..Len(sumCalls) : sumCalls[k].outcome.ok
    /\ Len(built) = 1


\* C31: a turn older than the 2 * max_context_length newest turns of the
\* user is neither returned as messages of the context nor handed to
\* _summarize_and_store.
C31_OnlyRecentWindow ==
    ContextReturned =>
        /\ \A k \in 1..Len(built) :
              built[k].role \in {"user", "assistant"} =>
                  built[k].turn <= max_context_length * 2
        /\ \A k \in 1..Len(sumCalls) :
              \A a \in 1..Len(sumCalls[k].turns) :
                  sumCalls[k].turns[a] <= max_context_length * 2

\* a history longer than the window whose older turns would fit the budget
\* while those of the window are handed to the summarization
C31_Witness ==
    /\ ContextReturned
    /\ Len(cfg.conversations) > max_context_length * 2
    /\ cfg.conversations[Len(cfg.conversations)].message = 8
    /\ cfg.max_context_tokens = 4000
    /\ \E k \in 1..Len(sumCalls) : Len(sumCalls[k].turns) >= max_context_length * 2 - 1

\* C33: the messages of the turns in the returned context are in
\* chronological order: of two returned turns, both messages of the older
\* one come before both messages of the newer one.
C33_TurnsChronological ==
    ContextReturned =>
        \A k, l \in 1..Len(built) :
            (/\ built[k].role \in {"user", "assistant"}
             /\ built[l].role \in {"user", "assistant"}
             /\ built[k].turn > built[l].turn) => k < l

C35_SummaryOnlyWhenProduced ==
    (ContextReturned /\ Returned("summary")) =>
        \E k \in 1..Len(sumCalls) : sumCalls[k].returned.content > 0

\* C36: over successive builds for a user whose stored turns do not change,
\* no turn is handed to _summarize_and_store by two builds, and the builds
\* after the first write no further summarization memory.
C36_SummarizedAtMostOnce ==
    /\ \A k, l \in 1..Len(sumCalls) :
          k < l => \A a \in 1..Len(sumCalls[k].turns), b \in 1..Len(sumCalls[l].turns) :
                      sumCalls[k].turns[a] # sumCalls[l].turns[b]
    /\ Cardinality({i \in 1..Len(memories) :
                       memories[i].memory_type = "summarization"}) <= 1

----------------------------------------------------------------------------
(* Claims about the creation of the user_context row, checked under        *)
(* SpecCreation.                                                           *)

CreationDone ==
    creation.sessions # <<>> /\ \A s \in Requests : creation.sessions[s].pc = "done"

\* C37: when the requests of one new user have run their get-or-create
\* calls, one user_context row exists and every call returned the row: no
\* preference read and no append was lost.
C37_CreationWithoutLoss ==
    CreationDone =>
        /\ creation.rows = 1
        /\ \A s \in Requests :
              \A k \in 1..Len(creation.sessions[s].results) :
                  creation.sessions[s].results[k] = "ok"

----------------------------------------------------------------------------
(* Claims about the scan limit of check_repetition, checked under SpecRep. *)

\* the rows of the querying user inside the time window
InWindowRows ==
    {i \in 1..Len(repIn.rows) :
        /\ repIn.rows[i].user = repIn.user
        /\ repIn.rows[i].ts >= repIn.now - TimeWindowSeconds}

\* how many in-window rows of the user are newer than row i
NewerInWindow(i) == Cardinality({j \in InWindowRows : repIn.rows[j].ts > repIn.rows[i].ts})

\* C32: the turn check_repetition returns as a match is one of the 10 newest
\* in-window turns of the user, so an in-window turn with 10 or more newer
\* in-window turns is never returned.
C32_ScansTenNewest ==
    (repOut.called = "sql" /\ repOut.res.found) =>
        \E i \in InWindowRows :
            /\ repOut.res.conv = <<repIn.rows[i]>>
            /\ NewerInWindow(i) < 10

\* an older in-window turn is similar enough, none of the 10 newest is, and
\* the call reports no repetition
C32_Witness ==
    /\ repOut.called = "sql" /\ ~repOut.res.found
    /\ \E i \in InWindowRows :
          /\ NewerInWindow(i) >= 10
          /\ SimilarityExceeds(repIn.embedding, repIn.rows[i].embedding,
                               ThresholdNum, ThresholdDen)
    /\ \E j \in InWindowRows :
          /\ NewerInWindow(j) < 10
          /\ repIn.rows[j].embedding # NoEmbedding

====
